---- MODULE Spec2Model ----
(***************************************************************************)
(* College Basketball Pick'Em (src/app.py): the stored JSON document, the  *)
(* handlers that rewrite it and the scoring functions that read it.        *)
(*                                                                         *)
(* Team names are strings; TLC's Len, SubSeq and \o work on them, so the   *)
(* name normalisation is modelled character by character.  Python's None   *)
(* and '' are both falsy and every reader in app.py tests them by          *)
(* truthiness, so both are the empty string here.                          *)
(***************************************************************************)
EXTENDS Integers, Sequences, FiniteSets, TLC

VARIABLES
    file,   \* the stored document picks_data.json (what load_data returns)
    now,    \* the current instant, datetime.now(), in abstract ticks
    pc,     \* per browser session: "idle", or "run" while a script run is between load_data and its handler
    local,  \* per browser session: the document the running script loaded, and when it rendered
    msg,    \* the handler that ran last and the text it showed, where a specification keeps them
    form,   \* the widget values of the pick forms (st.session_state), where a specification keeps them
    cache   \* the server's memo of build_cached_results and build_team_stats (st.cache_data), where a specification reads it

vars == <<file, now, pc, local, msg, form, cache>>

----------------------------------------------------------------------------
(* Bounds of the model.                                                    *)

\* games in a week's slate; app.py requires 20 (src/app.py:539,585), scaled down
GamesPerWeek == 4
\* the clock runs over 0..MaxNow
MaxNow == 1

----------------------------------------------------------------------------
(* Python string primitives.                                               *)

None == ""

Min(a, b) == IF a <= b THEN a ELSE b

CharAt(s, i) == SubSeq(s, i, i)

\* s[i:] with a 1-based i
From(s, i) == IF i > Len(s) THEN "" ELSE SubSeq(s, i, Len(s))

\* s[:n]
Prefix(s, n) == IF n <= 0 THEN "" ELSE SubSeq(s, 1, Min(n, Len(s)))

\* s.startswith(p)
StartsWith(s, p) == Len(p) <= Len(s) /\ Prefix(s, Len(p)) = p

\* s.endswith(p)
EndsWith(s, p) == Len(p) <= Len(s) /\ From(s, Len(s) - Len(p) + 1) = p

\* does p occur in s at the 1-based position i
OccursAt(s, p, i) == i + Len(p) - 1 <= Len(s) /\ SubSeq(s, i, i + Len(p) - 1) = p

\* p in s
Contains(s, p) == \E i \in 1..(Len(s) + 1) : OccursAt(s, p, i)

IsSpace(c) == c = " "

IsDigit(c) == c \in {"0", "1", "2", "3", "4", "5", "6", "7", "8", "9"}

RECURSIVE LStrip(_)
LStrip(s) == IF Len(s) > 0 /\ IsSpace(CharAt(s, 1)) THEN LStrip(From(s, 2)) ELSE s

RECURSIVE RStrip(_)
RStrip(s) == IF Len(s) > 0 /\ IsSpace(CharAt(s, Len(s))) THEN RStrip(Prefix(s, Len(s) - 1)) ELSE s

\* s.strip()
Strip(s) == LStrip(RStrip(s))

\* s.replace(old, new) for a non-empty old: non-overlapping occurrences, left to right
RECURSIVE Replace(_, _, _)
Replace(s, old, new) ==
    IF Len(s) = 0 THEN ""
    ELSE IF OccursAt(s, old, 1) THEN new \o Replace(From(s, Len(old) + 1), old, new)
    ELSE CharAt(s, 1) \o Replace(From(s, 2), old, new)

\* the length of the longest run of digits that ends at position i of s
RECURSIVE DigitsBefore(_, _)
DigitsBefore(s, i) ==
    IF i >= 1 /\ IsDigit(CharAt(s, i)) THEN 1 + DigitsBefore(s, i - 1) ELSE 0

\* re.sub(r'\s*\(\d+\)\s*$', '', s): a trailing "(digits)" annotation goes, with
\* the whitespace on both sides of it; a string without one is returned as it is
StripRank(s) ==
    LET t == RStrip(s)
        n == Len(t)
        d == IF n >= 1 /\ CharAt(t, n) = ")" THEN DigitsBefore(t, n - 1) ELSE 0
    IN  IF d >= 1 /\ n - d - 1 >= 1 /\ CharAt(t, n - d - 1) = "("
        THEN RStrip(Prefix(t, n - d - 2))
        ELSE s

\* re.search(r'\((?:OH|FL)\)', s)
HasStateQualifier(s) == Contains(s, "(OH)") \/ Contains(s, "(FL)")

----------------------------------------------------------------------------
(* normalize_team_name.                                                    *)

\* the replacements dict, in its insertion order (the loop walks it in order)
replacements == <<
    <<"Michigan St.", "Michigan State">>, <<"Michigan St", "Michigan State">>,
    <<"Miss. State", "Mississippi State">>, <<"Miss State", "Mississippi State">>,
    <<"Mississippi St.", "Mississippi State">>, <<"Mississippi St", "Mississippi State">>,
    <<"N. Carolina", "North Carolina">>, <<"Arizona St.", "Arizona State">>,
    <<"Colorado St.", "Colorado State">>, <<"New Mexico St.", "New Mexico State">>,
    <<"New Mexico St", "New Mexico State">>, <<"North Dakota St.", "North Dakota State">>,
    <<"Ohio St.", "Ohio State">>, <<"Oklahoma St.", "Oklahoma State">>,
    <<"San Diego St.", "San Diego State">>, <<"Illionois", "Illinois">>,
    <<"Georiga", "Georgia">>, <<"Syracus", "Syracuse">>, <<"ULCA", "UCLA">> >>

\* the for loop over replacements.items(), from entry i on: an exact match
\* replaces the name and breaks; a suffix match or a match followed by a space
\* rewrites every occurrence and the loop goes on with the rewritten name
RECURSIVE ApplyReplacements(_, _)
ApplyReplacements(name, i) ==
    IF i > Len(replacements) THEN name
    ELSE LET old == replacements[i][1]
             new == replacements[i][2]
         IN  IF name = old THEN new
             ELSE IF EndsWith(name, old) \/ Contains(name, old \o " ")
                  THEN ApplyReplacements(Replace(name, old, new), i + 1)
                  ELSE ApplyReplacements(name, i + 1)

\* normalize_team_name without the Miami special case
normalize_team_name_NoMiami(raw) ==
    IF raw = None THEN ""
    ELSE Strip(ApplyReplacements(StripRank(Strip(Replace(raw, "**", ""))), 1))

normalize_team_name(raw) ==
    IF raw = None THEN ""
    ELSE LET n1 == Strip(Replace(raw, "**", ""))
             n2 == IF /\ (n1 = "Miami" \/ (StartsWith(n1, "Miami") /\ ~HasStateQualifier(n1)))
                      /\ StripRank(n1) = "Miami"
                   THEN "Miami (FL)"
                   ELSE n1
             n3 == StripRank(n2)
         IN  Strip(ApplyReplacements(n3, 1))

\* the team names the forms of the model offer
AwayTeams == <<"Duke (1)", "Michigan St.", "UNC", "Kansas", "Gonzaga", "Baylor">>
HomeTeams == <<"Miami", "Ohio St.", "Miami (OH)", "**Illionois**", "UCLA", "Purdue">>
RetypedTeams == <<"Duke", "Florida">>

TeamNames == {AwayTeams[i] : i \in DOMAIN AwayTeams} \cup {HomeTeams[i] : i \in DOMAIN HomeTeams}
                 \cup {RetypedTeams[i] : i \in DOMAIN RetypedTeams} \cup {None}

\* normalize_team_name on the names of the forms, evaluated once
NormalizedTeamNames == [n \in TeamNames |-> normalize_team_name(n)]

\* normalize_team_name(name), looked up where it was evaluated before
Normalized(name) ==
    IF name \in TeamNames THEN NormalizedTeamNames[name] ELSE normalize_team_name(name)

----------------------------------------------------------------------------
(* Dicts, and the document of load_data.                                   *)

EmptyMap == [x \in {} |-> None]

\* m.get(k, default)
Get(m, k, default) == IF k \in DOMAIN m THEN m[k] ELSE default

\* m[k] = v
Put(m, k, v) == [x \in DOMAIN m \cup {k} |-> IF x = k THEN v ELSE m[x]]

\* the keys of a dict of integers or week numbers, in insertion order: every
\* such dict of app.py is filled in ascending order of its key
RECURSIVE Ascending(_)
Ascending(S) ==
    IF S = {} THEN <<>>
    ELSE LET m == CHOOSE x \in S : \A y \in S : x <= y
         IN  <<m>> \o Ascending(S \ {m})

Ids == 0..(GamesPerWeek - 1)

\* the last week of a season: the loops run over range(1, 17)
LastWeek == 16

DefaultSeason == "2025-2026"

DefaultSettings == [deadline_time |-> "16:30", timezone |-> "America/Los_Angeles"]

\* the document of a new installation
DefaultData ==
    [ seasons |-> [s \in {DefaultSeason} |-> [active |-> TRUE, weeks |-> EmptyMap, locked |-> FALSE]],
      current_season |-> DefaultSeason,
      users |-> EmptyMap,
      pending_users |-> {},
      settings |-> DefaultSettings ]

\* the users dict in insertion order
UserOrder == <<"ann", "bob", "cy", "dee", "eve">>

\* the record the Approve button stores for a registered user
ApprovedUser(username, season) ==
    [ display_name |-> username, active |-> TRUE, approved |-> TRUE, is_admin |-> FALSE,
      picks |-> EmptyMap, seasons |-> {season} ]

----------------------------------------------------------------------------
(* check_game_locked.                                                      *)

\* the dates the model's games are played on, as strftime('%Y-%m-%d') writes
\* them; the i-th is day i
GameDays == <<"2026-01-05", "2026-01-06", "2026-01-07", "2026-01-08">>

\* datetime.strptime(s, '%Y-%m-%d') succeeds
ParsesAsDate(s) == \E i \in 1..Len(GameDays) : GameDays[i] = s

DayOf(s) == CHOOSE i \in 1..Len(GameDays) : GameDays[i] = s

\* int(s) for a string of digits
RECURSIVE ToInt(_)
ToInt(s) ==
    IF Len(s) = 0 THEN 0
    ELSE 10 * ToInt(Prefix(s, Len(s) - 1))
           + (CHOOSE d \in 0..9 : CharAt("0123456789", d + 1) = CharAt(s, Len(s)))

\* int(s) succeeds: digits only (no sign, blank or underscore is modelled)
IsNumber(s) == Len(s) > 0 /\ \A i \in 1..Len(s) : IsDigit(CharAt(s, i))

\* s.split(':'), from the left
RECURSIVE Split(_)
Split(s) ==
    IF ~Contains(s, ":") THEN <<s>>
    ELSE LET i == CHOOSE k \in 1..Len(s) : CharAt(s, k) = ":" /\ \A j \in 1..(k - 1) : CharAt(s, j) # ":"
         IN  <<Prefix(s, i - 1)>> \o Split(From(s, i + 1))

\* hour, minute = map(int, deadline_time.split(':')) and
\* game_date.replace(hour=hour, minute=minute) both succeed
ParsesAsTime(s) ==
    LET parts == Split(s)
    IN  /\ Len(parts) = 2
        /\ IsNumber(parts[1]) /\ IsNumber(parts[2])
        /\ ToInt(parts[1]) <= 23 /\ ToInt(parts[2]) <= 59

\* the time of day in minutes
MinuteOfDay(s) == 60 * ToInt(Split(s)[1]) + ToInt(Split(s)[2])

\* pytz.timezone(name) succeeds
KnownTimezone(name) == name \in {"America/Los_Angeles", "America/New_York", "UTC"}

\* what tz.localize adds to a January wall time to get UTC, in minutes
UtcOffset(name) ==
    IF name = "America/Los_Angeles" THEN 480 ELSE IF name = "America/New_York" THEN 300 ELSE 0

\* tz.localize(game_date.replace(hour=hour, minute=minute)), in minutes of UTC
\* counted from the midnight before the first game day
Deadline(game_date_str, settings) ==
    1440 * DayOf(game_date_str) + MinuteOfDay(settings.deadline_time) + UtcOffset(settings.timezone)

\* datetime.now(tz) at the instant t of the clock, in the same minutes: the
\* clock is counted in days, instant t being 16:30 in Los Angeles on day t
TimeAt(t) == 1440 * t + 990 + 480

\* check_game_locked ignoring the timezone of the settings
check_game_locked_NoTimezone(game_date_str, settings, t) ==
    IF game_date_str = "" \/ game_date_str = "nan" THEN FALSE
    ELSE IF ~ParsesAsDate(game_date_str) THEN FALSE
    ELSE IF ~ParsesAsTime(settings.deadline_time) THEN FALSE
    ELSE IF ~KnownTimezone(settings.timezone) THEN FALSE
    ELSE TimeAt(t) >= 1440 * DayOf(game_date_str) + MinuteOfDay(settings.deadline_time) + 480

\* check_game_locked at the instant t; every exception is caught and gives False
check_game_locked(game_date_str, settings, t) ==
    IF game_date_str = "" \/ game_date_str = "nan" THEN FALSE
    ELSE IF ~ParsesAsDate(game_date_str) THEN FALSE
    ELSE IF ~ParsesAsTime(settings.deadline_time) THEN FALSE
    ELSE IF ~KnownTimezone(settings.timezone) THEN FALSE
    ELSE TimeAt(t) >= Deadline(game_date_str, settings)

----------------------------------------------------------------------------
(* calculate_week_results.                                                 *)

\* {str(c[0]): c[1] for c in confidence}: a later pair of a game overrides
RECURSIVE ConfidenceAssignments(_)
ConfidenceAssignments(confidence) ==
    IF confidence = <<>> THEN EmptyMap
    ELSE LET c == confidence[Len(confidence)]
             rest == ConfidenceAssignments(SubSeq(confidence, 1, Len(confidence) - 1))
         IN  Put(rest, c[1], c[2])

\* ScoreLoop with the weight of a picked game added whether or not the pick was right
RECURSIVE ScoreLoop_WeightAnyPick(_, _, _, _, _, _, _)
ScoreLoop_WeightAnyPick(keys, i, picks, confidence_assignments, winners, correct_picks, confidence_points) ==
    IF i > Len(keys) THEN <<correct_picks, confidence_points>>
    ELSE LET game_id == keys[i]
             winner == Get(winners, game_id, None)
             hit == winner # None /\ Normalized(winner) = Normalized(picks[game_id])
         IN  ScoreLoop_WeightAnyPick(keys, i + 1, picks, confidence_assignments, winners,
                       IF hit THEN correct_picks + 1 ELSE correct_picks,
                       IF winner # None /\ game_id \in DOMAIN confidence_assignments
                       THEN confidence_points + confidence_assignments[game_id]
                       ELSE confidence_points)

\* the loop over picks.items(), from the i-th key on, with the two counters
RECURSIVE ScoreLoop(_, _, _, _, _, _, _)
ScoreLoop(keys, i, picks, confidence_assignments, winners, correct_picks, confidence_points) ==
    IF i > Len(keys) THEN <<correct_picks, confidence_points>>
    ELSE LET game_id == keys[i]
             winner == Get(winners, game_id, None)
             hit == winner # None /\ Normalized(winner) = Normalized(picks[game_id])
         IN  ScoreLoop(keys, i + 1, picks, confidence_assignments, winners,
                       IF hit THEN correct_picks + 1 ELSE correct_picks,
                       IF hit /\ game_id \in DOMAIN confidence_assignments
                       THEN confidence_points + confidence_assignments[game_id]
                       ELSE confidence_points)

\* calculate_week_results that takes every pick of a week without winners for a correct one
calculate_week_results_UndecidedWon(season_data, week_num, username, user_data) ==
    IF week_num \notin DOMAIN season_data.weeks THEN <<0, 0>>
    ELSE LET week_data == season_data.weeks[week_num]
         IN  IF week_num \notin DOMAIN user_data.picks THEN <<0, 0>>
             ELSE LET user_picks == user_data.picks[week_num]
                  IN  IF week_data.winners = EmptyMap /\ ~week_data.winners_set
                      THEN <<Cardinality(DOMAIN user_picks.picks), 0>>
                      ELSE ScoreLoop(Ascending(DOMAIN user_picks.picks), 1, user_picks.picks,
                                     ConfidenceAssignments(user_picks.confidence),
                                     week_data.winners, 0, 0)

\* calculate_week_results that scores a week only once all its winners are in
calculate_week_results_CompleteOnly(season_data, week_num, username, user_data) ==
    IF week_num \notin DOMAIN season_data.weeks THEN <<0, 0>>
    ELSE LET week_data == season_data.weeks[week_num]
         IN  IF ~week_data.winners_set THEN <<0, 0>>
             ELSE IF week_num \notin DOMAIN user_data.picks THEN <<0, 0>>
             ELSE LET user_picks == user_data.picks[week_num]
                  IN  ScoreLoop(Ascending(DOMAIN user_picks.picks), 1, user_picks.picks,
                                ConfidenceAssignments(user_picks.confidence),
                                week_data.winners, 0, 0)

calculate_week_results(season_data, week_num, username, user_data) ==
    IF week_num \notin DOMAIN season_data.weeks THEN <<0, 0>>
    ELSE LET week_data == season_data.weeks[week_num]
         IN  IF week_data.winners = EmptyMap /\ ~week_data.winners_set THEN <<0, 0>>
             ELSE IF week_num \notin DOMAIN user_data.picks THEN <<0, 0>>
             ELSE LET user_picks == user_data.picks[week_num]
                  IN  ScoreLoop(Ascending(DOMAIN user_picks.picks), 1, user_picks.picks,
                                ConfidenceAssignments(user_picks.confidence),
                                week_data.winners, 0, 0)

----------------------------------------------------------------------------
(* get_season_standings.                                                   *)

NoSeasonData == [active |-> FALSE, weeks |-> EmptyMap, locked |-> FALSE]

\* the weeks loop of one user, from week on; acc is <<wins, losses, confidence>>
RECURSIVE StandingsWeeks(_, _, _, _, _)
StandingsWeeks(season_data, username, user_info, week, acc) ==
    IF week > LastWeek THEN acc
    ELSE IF week \notin DOMAIN season_data.weeks
         THEN StandingsWeeks(season_data, username, user_info, week + 1, acc)
    ELSE LET week_data == season_data.weeks[week]
         IN  IF week_data.winners = EmptyMap /\ ~week_data.winners_set
             THEN StandingsWeeks(season_data, username, user_info, week + 1, acc)
             ELSE IF week \in DOMAIN user_info.picks
             THEN LET r == calculate_week_results(season_data, week, username, user_info)
                      games_decided == Cardinality(DOMAIN week_data.winners)
                      week_games == Cardinality(DOMAIN user_info.picks[week].picks)
                      losses == IF week_data.winners_set
                                THEN (IF week_games > 0 THEN week_games - r[1] ELSE 0)
                                ELSE games_decided - r[1]
                  IN  StandingsWeeks(season_data, username, user_info, week + 1,
                                     <<acc[1] + r[1], acc[2] + losses, acc[3] + r[2]>>)
             ELSE StandingsWeeks(season_data, username, user_info, week + 1, acc)

\* StandingsRows with a row for archived users too
RECURSIVE StandingsRows_Archived(_, _, _)
StandingsRows_Archived(data, season_name, i) ==
    IF i > Len(UserOrder) THEN <<>>
    ELSE LET username == UserOrder[i]
             rest == StandingsRows_Archived(data, season_name, i + 1)
         IN  IF username \notin DOMAIN data.users THEN rest
             ELSE LET user_info == data.users[username]
                  IN  IF ~user_info.approved THEN rest
                      ELSE IF season_name \notin user_info.seasons THEN rest
                      ELSE LET t == StandingsWeeks(Get(data.seasons, season_name, NoSeasonData),
                                                   username, user_info, 1, <<0, 0, 0>>)
                           IN  <<[Name |-> user_info.display_name, Wins |-> t[1],
                                  Losses |-> t[2], Confidence |-> t[3]]>> \o rest

\* the users loop, from the i-th user of the dict on: the list of rows
RECURSIVE StandingsRows(_, _, _)
StandingsRows(data, season_name, i) ==
    IF i > Len(UserOrder) THEN <<>>
    ELSE LET username == UserOrder[i]
             rest == StandingsRows(data, season_name, i + 1)
         IN  IF username \notin DOMAIN data.users THEN rest
             ELSE LET user_info == data.users[username]
                  IN  IF ~user_info.approved \/ ~user_info.active THEN rest
                      ELSE IF season_name \notin user_info.seasons THEN rest
                      ELSE LET t == StandingsWeeks(Get(data.seasons, season_name, NoSeasonData),
                                                   username, user_info, 1, <<0, 0, 0>>)
                           IN  <<[Name |-> user_info.display_name, Wins |-> t[1],
                                  Losses |-> t[2], Confidence |-> t[3]]>> \o rest

\* RowBefore by wins alone
RowBefore_WinsOnly(a, b) == a.Wins > b.Wins

\* the sort key of sort_values(['Wins', 'Confidence'], ascending=[False, False]):
\* row a goes strictly before row b
RowBefore(a, b) == a.Wins > b.Wins \/ (a.Wins = b.Wins /\ a.Confidence > b.Confidence)

\* the stable sort of a list of rows: each row goes behind the rows it does not precede
RECURSIVE SortRows(_)
SortRows(rows) ==
    IF rows = <<>> THEN <<>>
    ELSE LET r == rows[Len(rows)]
             sorted == SortRows(SubSeq(rows, 1, Len(rows) - 1))
             k == Cardinality({j \in 1..Len(sorted) : ~RowBefore(r, sorted[j])})
         IN  SubSeq(sorted, 1, k) \o <<r>> \o SubSeq(sorted, k + 1, Len(sorted))

get_season_standings(data, season_name) == SortRows(StandingsRows(data, season_name, 1))

----------------------------------------------------------------------------
(* all_picks_submitted.                                                    *)

\* all_picks_submitted that is content with one submission
RECURSIVE all_picks_submitted_Any(_, _, _, _)
all_picks_submitted_Any(season_data, week_num, data, i) ==
    IF i > Len(UserOrder) THEN FALSE
    ELSE LET username == UserOrder[i]
         IN  IF username \in DOMAIN data.users
                /\ data.users[username].approved /\ data.users[username].active
                /\ week_num \in DOMAIN data.users[username].picks
                /\ data.users[username].picks[week_num].picks # EmptyMap
             THEN TRUE
             ELSE all_picks_submitted_Any(season_data, week_num, data, i + 1)

\* the loop over active_users, from the i-th user of the dict on
RECURSIVE all_picks_submitted(_, _, _, _)
all_picks_submitted(season_data, week_num, data, i) ==
    IF i > Len(UserOrder) THEN TRUE
    ELSE LET username == UserOrder[i]
         IN  IF username \notin DOMAIN data.users
                \/ ~(data.users[username].approved /\ data.users[username].active)
             THEN all_picks_submitted(season_data, week_num, data, i + 1)
             ELSE IF week_num \notin DOMAIN data.users[username].picks
                     \/ data.users[username].picks[week_num].picks = EmptyMap
             THEN FALSE
             ELSE all_picks_submitted(season_data, week_num, data, i + 1)

----------------------------------------------------------------------------
(* build_cached_results and build_team_stats, and their memo.              *)

\* {season: {username: {week: (wins, conf)}}}
build_cached_results(data) ==
    [season_name \in DOMAIN data.seasons |->
        LET season_data == data.seasons[season_name]
        IN  [username \in {u \in DOMAIN data.users : data.users[u].approved /\ data.users[u].active} |->
                LET user_info == data.users[username]
                IN  [week \in {w \in 1..LastWeek :
                                  /\ w \in DOMAIN season_data.weeks
                                  /\ ~(season_data.weeks[w].winners = EmptyMap /\ ~season_data.weeks[w].winners_set)
                                  /\ w \in DOMAIN user_info.picks} |->
                        calculate_week_results(season_data, week, username, user_info)]]]

NoStats == [games |-> 0, wins |-> 0, times_picked |-> 0, correct_picks |-> 0]

\* for team in [away, home]: the appearance and the win of one side of a game
CountSide(team_stats, team, winner_norm) ==
    IF team = "" THEN team_stats
    ELSE LET old == Get(team_stats, team, NoStats)
         IN  Put(team_stats, team,
                 [old EXCEPT !.games = @ + 1, !.wins = IF team = winner_norm THEN @ + 1 ELSE @])

\* the users loop of one game, from the i-th user of the dict on
RECURSIVE CountPicks(_, _, _, _, _, _, _, _)
CountPicks(team_stats, data, week, game_id, away, home, winner_norm, i) ==
    IF i > Len(UserOrder) THEN team_stats
    ELSE LET username == UserOrder[i]
             skip == CountPicks(team_stats, data, week, game_id, away, home, winner_norm, i + 1)
         IN  IF username \notin DOMAIN data.users THEN skip
             ELSE LET u_info == data.users[username]
                      user_picks == IF week \in DOMAIN u_info.picks THEN u_info.picks[week].picks ELSE EmptyMap
                      pick_raw == Get(user_picks, game_id, None)
                      pick_norm == Normalized(pick_raw)
                      picked == IF pick_norm = away THEN away ELSE IF pick_norm = home THEN home ELSE ""
                  IN  IF ~u_info.approved \/ ~u_info.active \/ pick_raw = None \/ picked = ""
                      THEN skip
                      ELSE CountPicks([team_stats EXCEPT
                                          ![picked].times_picked = @ + 1,
                                          ![picked].correct_picks = IF winner_norm = picked THEN @ + 1 ELSE @],
                                      data, week, game_id, away, home, winner_norm, i + 1)

\* the games loop of one week, from the i-th game on
RECURSIVE CountGames(_, _, _, _, _)
CountGames(team_stats, data, week, week_data, i) ==
    IF i > Len(week_data.games) THEN team_stats
    ELSE LET game == week_data.games[i]
             away == Normalized(game.away)
             home == Normalized(game.home)
             winner_raw == Get(week_data.winners, game.id, None)
             winner_norm == Normalized(winner_raw)
         IN  IF winner_raw = None THEN CountGames(team_stats, data, week, week_data, i + 1)
             ELSE CountGames(
                      CountPicks(CountSide(CountSide(team_stats, away, winner_norm), home, winner_norm),
                                 data, week, game.id, away, home, winner_norm, 1),
                      data, week, week_data, i + 1)

\* CountWeeks without the test of winners_set
RECURSIVE CountWeeks_AnyWeek(_, _, _, _)
CountWeeks_AnyWeek(team_stats, data, season_data, week) ==
    IF week > LastWeek THEN team_stats
    ELSE IF week \notin DOMAIN season_data.weeks
         THEN CountWeeks_AnyWeek(team_stats, data, season_data, week + 1)
    ELSE CountWeeks_AnyWeek(CountGames(team_stats, data, week, season_data.weeks[week], 1),
                            data, season_data, week + 1)

\* the weeks loop, from week on
RECURSIVE CountWeeks(_, _, _, _)
CountWeeks(team_stats, data, season_data, week) ==
    IF week > LastWeek THEN team_stats
    ELSE IF week \notin DOMAIN season_data.weeks \/ ~season_data.weeks[week].winners_set
         THEN CountWeeks(team_stats, data, season_data, week + 1)
    ELSE CountWeeks(CountGames(team_stats, data, week, season_data.weeks[week], 1),
                    data, season_data, week + 1)

build_team_stats(data, season_name) ==
    CountWeeks(EmptyMap, data, Get(data.seasons, season_name, NoSeasonData), 1)

\* @st.cache_data(ttl=30): an instant of the model is 30 seconds
CacheTtl == 1

\* an entry of the memo: a value and the instant it was computed at
NoEntry == [value |-> <<>>, at |-> -1]

\* build_cached_results has one entry, its only argument being left out of
\* the key (its name starts with an underscore); build_team_stats has one
\* entry for each season_name
NoCache == [results |-> NoEntry, team_stats |-> EmptyMap]

Fresh(entry, t) == entry.at >= 0 /\ t - entry.at < CacheTtl

\* the memo after a call of build_cached_results(json.dumps(data)) at the instant t
CallCachedResults(memo, data, t) ==
    IF Fresh(memo.results, t) THEN memo
    ELSE [memo EXCEPT !.results = [value |-> build_cached_results(data), at |-> t]]

\* the memo after a call of build_team_stats(json.dumps(data), season_name) at the instant t
CallTeamStats(memo, data, season_name, t) ==
    IF Fresh(Get(memo.team_stats, season_name, NoEntry), t) THEN memo
    ELSE [memo EXCEPT !.team_stats =
              Put(@, season_name, [value |-> build_team_stats(data, season_name), at |-> t])]

----------------------------------------------------------------------------
(* The Weekly Winners view of the Standings tab (the admin's and the       *)
(* participant's are the same code).                                       *)

\* week_results: the users loop, from the i-th user of the dict on
RECURSIVE WeekResults(_, _, _, _)
WeekResults(data, season_data, week, i) ==
    IF i > Len(UserOrder) THEN <<>>
    ELSE LET username == UserOrder[i]
             rest == WeekResults(data, season_data, week, i + 1)
         IN  IF username \notin DOMAIN data.users THEN rest
             ELSE LET user_info == data.users[username]
                  IN  IF ~user_info.approved \/ ~user_info.active THEN rest
                      ELSE IF week \in DOMAIN user_info.picks
                      THEN LET r == calculate_week_results(season_data, week, username, user_info)
                           IN  <<[name |-> user_info.display_name, wins |-> r[1], conf |-> r[2]]>> \o rest
                      ELSE rest

\* the key of week_results.sort(key=lambda x: (x['wins'], x['conf']), reverse=True)
ResultBefore(a, b) == a.wins > b.wins \/ (a.wins = b.wins /\ a.conf > b.conf)

\* list.sort is stable, with reverse=True too
RECURSIVE SortResults(_)
SortResults(results) ==
    IF results = <<>> THEN <<>>
    ELSE LET r == results[Len(results)]
             sorted == SortResults(SubSeq(results, 1, Len(results) - 1))
             k == Cardinality({j \in 1..Len(sorted) : ~ResultBefore(r, sorted[j])})
         IN  SubSeq(sorted, 1, k) \o <<r>> \o SubSeq(sorted, k + 1, Len(sorted))

\* winners = [r for r in week_results if r['wins'] == top_wins and r['conf'] == top_conf]
RECURSIVE TiedAtTop(_, _, _)
TiedAtTop(results, top_wins, top_conf) ==
    IF results = <<>> THEN <<>>
    ELSE (IF results[1].wins = top_wins /\ results[1].conf = top_conf THEN <<results[1].name>> ELSE <<>>)
         \o TiedAtTop(Tail(results), top_wins, top_conf)

\* weekly_winners_data: the weeks loop, from week on
RECURSIVE WeeklyWinnersFrom(_, _, _)
WeeklyWinnersFrom(data, season_data, week) ==
    IF week > LastWeek THEN <<>>
    ELSE LET rest == WeeklyWinnersFrom(data, season_data, week + 1)
         IN  IF week \in DOMAIN season_data.weeks /\ season_data.weeks[week].winners_set
             THEN LET week_results == SortResults(WeekResults(data, season_data, week, 1))
                  IN  IF week_results # <<>>
                      THEN <<[Week |-> week,
                              Winners |-> TiedAtTop(week_results, week_results[1].wins, week_results[1].conf),
                              Wins |-> week_results[1].wins,
                              Confidence |-> week_results[1].conf]>> \o rest
                      ELSE rest
             ELSE rest

weekly_winners_data(data, viewing_season) == WeeklyWinnersFrom(data, data.seasons[viewing_season], 1)

----------------------------------------------------------------------------
(* The handlers, as functions of the document the script run loaded.  Each *)
(* gives the document it leaves in memory, whether it called save_data,    *)
(* and the message it showed.                                              *)

\* the season a session looks at: viewing_season if it names a season of the
\* document, else the current season
ViewingSeason(data, chosen) ==
    IF chosen \in DOMAIN data.seasons THEN chosen ELSE data.current_season

\* cleared: the handler called build_cached_results.clear() and build_team_stats.clear()
Result(data, saved, text) == [data |-> data, saved |-> saved, text |-> text, cleared |-> FALSE]

NewWeek == [games |-> <<>>, winners |-> EmptyMap, winners_set |-> FALSE]

\* The Set Games tab runs in every script run of the admin view, before the
\* other tabs: it creates, in memory, the week its selectbox shows.
SetGamesTab(data, viewing_season, set_games_week) ==
    IF set_games_week \in DOMAIN data.seasons[viewing_season].weeks THEN data
    ELSE [data EXCEPT !.seasons[viewing_season].weeks = Put(@, set_games_week, NewWeek)]

\* the games list the Set Games form builds from its rows: a row with both
\* teams filled becomes a game whose id is the row's index
RECURSIVE EnteredGames(_, _)
EnteredGames(rows, i) ==
    IF i > Len(rows) THEN <<>>
    ELSE IF rows[i].away # "" /\ rows[i].home # ""
         THEN <<[away |-> rows[i].away, home |-> rows[i].home, date |-> rows[i].date, id |-> i - 1]>>
              \o EnteredGames(rows, i + 1)
         ELSE EnteredGames(rows, i + 1)

\* SaveGames without the test of the number of games
SaveGames_AnyCount(data, viewing_season, week_num, rows) ==
    LET d1 == SetGamesTab(data, viewing_season, week_num)
        games == EnteredGames(rows, 1)
        season_data == [d1.seasons[viewing_season] EXCEPT !.weeks[week_num].games = games]
    IN  Result([d1 EXCEPT !.seasons[viewing_season] = season_data,
                          !.seasons[d1.current_season] = season_data],
               TRUE, "Saved games")

\* "Save Games"
SaveGames(data, viewing_season, week_num, rows) ==
    LET d1 == SetGamesTab(data, viewing_season, week_num)
        games == EnteredGames(rows, 1)
        season_data == [d1.seasons[viewing_season] EXCEPT !.weeks[week_num].games = games]
    IN  IF Len(games) = GamesPerWeek
        THEN Result([d1 EXCEPT !.seasons[viewing_season] = season_data,
                               !.seasons[d1.current_season] = season_data],
                    TRUE, "Saved games")
        ELSE Result(d1, FALSE, "You must enter all games")

\* the new_winners dict of the Mark Winners form: marks[i] is the radio of the
\* i-th game, None while nothing is selected
RECURSIVE MarkedWinners(_, _, _)
MarkedWinners(games, marks, i) ==
    IF i > Len(games) THEN EmptyMap
    ELSE LET rest == MarkedWinners(games, marks, i + 1)
         IN  IF marks[i] # None THEN Put(rest, games[i].id, marks[i]) ELSE rest

\* the recalculation loop of "Save All Marked Games", from the i-th user on
RECURSIVE RecalculateUsers(_, _, _)
RecalculateUsers(data, week_num, i) ==
    IF i > Len(UserOrder) THEN data
    ELSE LET username == UserOrder[i]
         IN  IF username \in DOMAIN data.users /\ week_num \in DOMAIN data.users[username].picks
             THEN LET r == calculate_week_results(data.seasons[data.current_season], week_num,
                                                  username, data.users[username])
                  IN  RecalculateUsers(
                          [data EXCEPT !.users[username].picks[week_num].cached = r],
                          week_num, i + 1)
             ELSE RecalculateUsers(data, week_num, i + 1)

\* "Save All Marked Games"; the tab shows the form only for a week with games
SaveWinners(data, viewing_season, set_games_week, week_num, marks) ==
    LET d1 == SetGamesTab(data, viewing_season, set_games_week)
        old == d1.seasons[viewing_season].weeks[week_num]
        new_winners == MarkedWinners(old.games, marks, 1)
        marked_count == Cardinality(DOMAIN new_winners)
        total_count == Len(old.games)
        week_data == [old EXCEPT !.winners = new_winners,
                                 !.winners_set = IF marked_count = total_count THEN TRUE ELSE @]
        d2 == [d1 EXCEPT !.seasons[viewing_season].weeks[week_num] = week_data]
        d3 == RecalculateUsers(d2, week_num, 1)
        d4 == [d3 EXCEPT !.seasons[d3.current_season].weeks =
                             Put(@, week_num, d3.seasons[viewing_season].weeks[week_num])]
    IN  [Result(d4, TRUE,
                IF marked_count = total_count THEN "All winners saved" ELSE "Saved some winners")
            EXCEPT !.cleared = TRUE]

\* the team a pick radio returns: side 0 is no selection, 1 the away team, 2 the home team
PickedTeam(game, side) == IF side = 1 THEN game.away ELSE IF side = 2 THEN game.home ELSE None

\* the picks dict and the confidence list the Edit Picks form builds: every game
RECURSIVE EditFormPicks(_, _, _)
EditFormPicks(games, side, i) ==
    IF i > Len(games) THEN EmptyMap
    ELSE Put(EditFormPicks(games, side, i + 1), games[i].id, PickedTeam(games[i], side[games[i].id]))

RECURSIVE EditFormConfidence(_, _, _)
EditFormConfidence(games, conf, i) ==
    IF i > Len(games) THEN <<>>
    ELSE (IF conf[games[i].id] # 0 THEN <<<<games[i].id, conf[games[i].id]>>>> ELSE <<>>)
         \o EditFormConfidence(games, conf, i + 1)

\* [c[1] for c in confidence_picks]
RECURSIVE ConfValues(_)
ConfValues(confidence_picks) ==
    IF confidence_picks = <<>> THEN {}
    ELSE {confidence_picks[1][2]} \cup ConfValues(Tail(confidence_picks))

NewSubmission(picks, confidence_picks, t) ==
    [picks |-> picks, confidence |-> confidence_picks, submitted |-> t, cached |-> <<>>]

\* SavePicks without the test that the three weights differ
SavePicks_AnyWeights(data, viewing_season, set_games_week, week_num, selected_user, side, conf, t) ==
    LET d1 == SetGamesTab(data, viewing_season, set_games_week)
        week_data == d1.seasons[viewing_season].weeks[week_num]
        picks == EditFormPicks(week_data.games, side, 1)
        confidence_picks == EditFormConfidence(week_data.games, conf, 1)
    IN  IF Len(confidence_picks) = 3
        THEN Result([d1 EXCEPT !.users[selected_user].picks =
                                   Put(@, week_num, NewSubmission(picks, confidence_picks, t))],
                    TRUE, "Picks saved")
        ELSE Result(d1, FALSE, "Must assign exactly one each of 1, 2, and 3")

\* "Save Picks" of the admin's Edit Picks tab, clicked at the instant t
SavePicks(data, viewing_season, set_games_week, week_num, selected_user, side, conf, t) ==
    LET d1 == SetGamesTab(data, viewing_season, set_games_week)
        week_data == d1.seasons[viewing_season].weeks[week_num]
        picks == EditFormPicks(week_data.games, side, 1)
        confidence_picks == EditFormConfidence(week_data.games, conf, 1)
    IN  IF Len(confidence_picks) = 3 /\ Cardinality(ConfValues(confidence_picks)) = 3
        THEN Result([d1 EXCEPT !.users[selected_user].picks =
                                   Put(@, week_num, NewSubmission(picks, confidence_picks, t))],
                    TRUE, "Picks saved")
        ELSE Result(d1, FALSE, "Must assign exactly one each of 1, 2, and 3")

\* the picks dict and the confidence list the Make Picks form builds at the
\* instant t1: only the games that are not locked then have widgets
RECURSIVE MakeFormPicks(_, _, _, _, _)
MakeFormPicks(games, settings, t1, side, i) ==
    IF i > Len(games) THEN EmptyMap
    ELSE LET rest == MakeFormPicks(games, settings, t1, side, i + 1)
         IN  IF ~check_game_locked(games[i].date, settings, t1)
             THEN Put(rest, games[i].id, PickedTeam(games[i], side[games[i].id]))
             ELSE rest

RECURSIVE MakeFormConfidence(_, _, _, _, _)
MakeFormConfidence(games, settings, t1, conf, i) ==
    IF i > Len(games) THEN <<>>
    ELSE (IF ~check_game_locked(games[i].date, settings, t1) /\ conf[games[i].id] # 0
          THEN <<<<games[i].id, conf[games[i].id]>>>> ELSE <<>>)
         \o MakeFormConfidence(games, settings, t1, conf, i + 1)

\* [g for g in week_data['games'] if not check_game_locked(...)] at the instant t
UnlockedGames(games, settings, t) ==
    SelectSeq(games, LAMBDA g : ~check_game_locked(g.date, settings, t))

\* SubmitPicks without the check that the three weights differ
SubmitPicks_NoDistinctCheck(data, viewing_season, week_num, username, side, conf, t1, t2) ==
    LET week_data == data.seasons[viewing_season].weeks[week_num]
        picks == MakeFormPicks(week_data.games, data.settings, t1, side, 1)
        confidence_picks == MakeFormConfidence(week_data.games, data.settings, t1, conf, 1)
        unlocked_games == UnlockedGames(week_data.games, data.settings, t2)
    IN  IF Cardinality(DOMAIN picks) # Len(unlocked_games)
        THEN Result(data, FALSE, "Must pick all unlocked games")
        ELSE IF Len(confidence_picks) # 3
        THEN Result(data, FALSE, "Must assign exactly 3 confidence picks")
        ELSE Result([data EXCEPT !.users[username].picks =
                                     Put(@, week_num, NewSubmission(picks, confidence_picks, t2))],
                    TRUE, "Picks submitted and locked!")

\* SubmitPicks with the weights checked before the count
SubmitPicks_WeightsFirst(data, viewing_season, week_num, username, side, conf, t1, t2) ==
    LET week_data == data.seasons[viewing_season].weeks[week_num]
        picks == MakeFormPicks(week_data.games, data.settings, t1, side, 1)
        confidence_picks == MakeFormConfidence(week_data.games, data.settings, t1, conf, 1)
        unlocked_games == UnlockedGames(week_data.games, data.settings, t2)
    IN  IF Cardinality(DOMAIN picks) # Len(unlocked_games)
        THEN Result(data, FALSE, "Must pick all unlocked games")
        ELSE IF Cardinality(ConfValues(confidence_picks)) # 3
        THEN Result(data, FALSE, "Confidence picks must use each value once (1, 2, 3)")
        ELSE IF Len(confidence_picks) # 3
        THEN Result(data, FALSE, "Must assign exactly 3 confidence picks")
        ELSE Result([data EXCEPT !.users[username].picks =
                                     Put(@, week_num, NewSubmission(picks, confidence_picks, t2))],
                    TRUE, "Picks submitted and locked!")

\* SubmitPicks without the check against the games that are open at the click
SubmitPicks_NoCoverCheck(data, viewing_season, week_num, username, side, conf, t1, t2) ==
    LET week_data == data.seasons[viewing_season].weeks[week_num]
        picks == MakeFormPicks(week_data.games, data.settings, t1, side, 1)
        confidence_picks == MakeFormConfidence(week_data.games, data.settings, t1, conf, 1)
    IN  IF Len(confidence_picks) # 3
        THEN Result(data, FALSE, "Must assign exactly 3 confidence picks")
        ELSE IF Cardinality(ConfValues(confidence_picks)) # 3
        THEN Result(data, FALSE, "Confidence picks must use each value once (1, 2, 3)")
        ELSE Result([data EXCEPT !.users[username].picks =
                                     Put(@, week_num, NewSubmission(picks, confidence_picks, t2))],
                    TRUE, "Picks submitted and locked!")

\* "Submit Picks" of the participant's Make Picks tab: the form was built at
\* t1 and the button's validation runs at t2
SubmitPicks(data, viewing_season, week_num, username, side, conf, t1, t2) ==
    LET week_data == data.seasons[viewing_season].weeks[week_num]
        picks == MakeFormPicks(week_data.games, data.settings, t1, side, 1)
        confidence_picks == MakeFormConfidence(week_data.games, data.settings, t1, conf, 1)
        unlocked_games == UnlockedGames(week_data.games, data.settings, t2)
    IN  IF Cardinality(DOMAIN picks) # Len(unlocked_games)
        THEN Result(data, FALSE, "Must pick all unlocked games")
        ELSE IF Len(confidence_picks) # 3
        THEN Result(data, FALSE, "Must assign exactly 3 confidence picks")
        ELSE IF Cardinality(ConfValues(confidence_picks)) # 3
        THEN Result(data, FALSE, "Confidence picks must use each value once (1, 2, 3)")
        ELSE Result([data EXCEPT !.users[username].picks =
                                     Put(@, week_num, NewSubmission(picks, confidence_picks, t2))],
                    TRUE, "Picks submitted and locked!")

\* "Approve" of the Manage Users tab, for a registered user awaiting approval
Approve(data, viewing_season, set_games_week, username) ==
    LET d1 == SetGamesTab(data, viewing_season, set_games_week)
    IN  Result([d1 EXCEPT !.users = Put(@, username, ApprovedUser(username, data.current_season)),
                          !.pending_users = @ \ {username}],
               TRUE, "Approved")

\* "Archive" of the Manage Users tab
Archive(data, viewing_season, set_games_week, username) ==
    LET d1 == SetGamesTab(data, viewing_season, set_games_week)
    IN  Result([d1 EXCEPT !.users[username].active = FALSE], TRUE, "Archived")

\* "Reactivate" of the Manage Users tab
Reactivate(data, viewing_season, set_games_week, username) ==
    LET d1 == SetGamesTab(data, viewing_season, set_games_week)
    IN  Result([d1 EXCEPT !.users[username].active = TRUE], TRUE, "Reactivated")

\* "Create Season" of the Seasons tab
CreateSeason(data, viewing_season, set_games_week, new_season_name) ==
    LET d1 == SetGamesTab(data, viewing_season, set_games_week)
    IN  IF new_season_name # "" /\ new_season_name \notin DOMAIN data.seasons
        THEN Result([d1 EXCEPT !.seasons = Put(@, new_season_name, NoSeasonData)], TRUE, "Created season")
        ELSE Result(d1, FALSE, "")

\* SetActive without the loop that deactivates the other seasons
SetActive_KeepOthers(data, viewing_season, set_games_week, season_name) ==
    LET d1 == SetGamesTab(data, viewing_season, set_games_week)
    IN  Result([d1 EXCEPT !.seasons[season_name].active = TRUE,
                          !.current_season = season_name],
               TRUE, "")

\* "Set Active" of the Seasons tab
SetActive(data, viewing_season, set_games_week, season_name) ==
    LET d1 == SetGamesTab(data, viewing_season, set_games_week)
    IN  Result([d1 EXCEPT !.seasons = [sn \in DOMAIN @ |-> [@[sn] EXCEPT !.active = (sn = season_name)]],
                          !.current_season = season_name],
               TRUE, "")

\* "Lock" / "Unlock" of the Seasons tab
ToggleLock(data, viewing_season, set_games_week, season_name) ==
    LET d1 == SetGamesTab(data, viewing_season, set_games_week)
    IN  Result([d1 EXCEPT !.seasons[season_name].locked = ~data.seasons[season_name].locked],
               TRUE, "")

\* the participant's All Picks tab: the table of everybody's picks, or the
\* notice that it is not visible yet; nothing is written
AllPicksTab(data, viewing_season, week_num) ==
    LET season_data == data.seasons[viewing_season]
    IN  IF all_picks_submitted(season_data, week_num, data, 1)
        THEN IF week_num \in DOMAIN season_data.weeks /\ season_data.weeks[week_num].games # <<>>
             THEN Result(data, FALSE, "All picks table")
             ELSE Result(data, FALSE, "")
        ELSE Result(data, FALSE, "All picks will be visible once all participants have submitted for this week.")

----------------------------------------------------------------------------
(* Script runs.  A click starts a run: it loads the document and renders   *)
(* the page (Begin); the clicked button's handler then works on that copy  *)
(* and, if it saves, writes the whole of it back.                          *)

NoRun == [data |-> <<>>, t |-> 0]

NoForm == [side |-> <<>>, conf |-> <<>>]

Begin(s) ==
    /\ pc[s] = "idle"
    /\ pc' = [pc EXCEPT ![s] = "run"]
    /\ local' = [local EXCEPT ![s] = [data |-> file, t |-> now]]
    /\ UNCHANGED <<file, now, msg, form, cache>>

\* Finish with a save that is dropped when the file is no longer the copy the
\* run loaded
Finish_RejectStale(s, op, r, shown) ==
    /\ file' = IF r.saved /\ local[s].data = file THEN r.data ELSE file
    /\ msg' = IF shown THEN [op |-> op, text |-> r.text] ELSE msg
    /\ pc' = [pc EXCEPT ![s] = "idle"]
    /\ local' = [local EXCEPT ![s] = NoRun]
    /\ cache' = IF r.cleared THEN NoCache ELSE cache
    /\ UNCHANGED now

\* the end of a run whose handler gave the result r; shown says whether the
\* specification keeps the message
Finish(s, op, r, shown) ==
    /\ file' = IF r.saved THEN r.data ELSE file
    /\ msg' = IF shown THEN [op |-> op, text |-> r.text] ELSE msg
    /\ pc' = [pc EXCEPT ![s] = "idle"]
    /\ local' = [local EXCEPT ![s] = NoRun]
    /\ cache' = IF r.cleared THEN NoCache ELSE cache
    /\ UNCHANGED now

Tick ==
    /\ now < MaxNow
    /\ now' = now + 1
    /\ UNCHANGED <<file, pc, local, msg, form, cache>>

\* a week whose tab shows its form: the week exists and has games
HasGames(data, season, week_num) ==
    /\ week_num \in DOMAIN data.seasons[season].weeks
    /\ data.seasons[season].weeks[week_num].games # <<>>

DoSaveGames(s, chosen, week_num, rows, shown) ==
    /\ pc[s] = "run"
    /\ LET data == local[s].data
       IN  Finish(s, "SaveGames", SaveGames(data, ViewingSeason(data, chosen), week_num, rows), shown)

\* what the winner radio of a game shows before the admin touches it
DefaultMark(week_data, game) ==
    LET existing_winner == Get(week_data.winners, game.id, None)
    IN  IF existing_winner \in {game.away, game.home} THEN existing_winner ELSE None

\* a radio offers the two teams of its game, and once it has a selection it
\* cannot go back to none
MarksAllowed(week_data, marks) ==
    /\ DOMAIN marks = 1..Len(week_data.games)
    /\ \A i \in DOMAIN marks :
          LET game == week_data.games[i]
          IN  /\ marks[i] \in {None, game.away, game.home}
              /\ DefaultMark(week_data, game) # None => marks[i] # None

DoSaveWinners(s, chosen, set_games_week, week_num, marks, shown) ==
    /\ pc[s] = "run"
    /\ LET data == local[s].data
           season == ViewingSeason(data, chosen)
           d1 == SetGamesTab(data, season, set_games_week)
       IN  /\ HasGames(d1, season, week_num)
           /\ MarksAllowed(d1.seasons[season].weeks[week_num], marks)
           /\ Finish(s, "SaveWinners", SaveWinners(data, season, set_games_week, week_num, marks), shown)

DoSavePicks(s, chosen, set_games_week, week_num, selected_user, side, conf, shown) ==
    /\ pc[s] = "run"
    /\ LET data == local[s].data
           season == ViewingSeason(data, chosen)
           d1 == SetGamesTab(data, season, set_games_week)
       IN  /\ selected_user \in DOMAIN data.users
           /\ data.users[selected_user].approved /\ data.users[selected_user].active
           /\ HasGames(d1, season, week_num)
           \* a pick radio starts on the stored pick, if there is one
           /\ \A g \in Ids : side[g] = 0 =>
                 ~(/\ week_num \in DOMAIN data.users[selected_user].picks
                   /\ g \in DOMAIN data.users[selected_user].picks[week_num].picks)
           /\ Finish(s, "SavePicks",
                     SavePicks(data, season, set_games_week, week_num, selected_user, side, conf, now), shown)

DoSubmitPicks(s, chosen, week_num, username, side, conf, shown) ==
    /\ pc[s] = "run"
    /\ LET data == local[s].data
           season == ViewingSeason(data, chosen)
       IN  /\ username \in DOMAIN data.users
           /\ data.users[username].approved /\ ~data.users[username].is_admin
           /\ HasGames(data, season, week_num)
           \* picks_submitted: the form is shown only while nothing is stored
           /\ week_num \notin DOMAIN data.users[username].picks
           /\ \A g \in Ids : side[g] \in {1, 2}
           /\ Finish(s, "SubmitPicks",
                     SubmitPicks(data, season, week_num, username, side, conf, local[s].t, now), shown)

DoApprove(s, chosen, set_games_week, username, shown) ==
    /\ pc[s] = "run"
    /\ LET data == local[s].data
       IN  /\ username \in data.pending_users
           /\ Finish(s, "Approve", Approve(data, ViewingSeason(data, chosen), set_games_week, username), shown)

DoArchive(s, chosen, set_games_week, username, shown) ==
    /\ pc[s] = "run"
    /\ LET data == local[s].data
       IN  /\ username \in DOMAIN data.users
           /\ data.users[username].active
           /\ Finish(s, "Archive", Archive(data, ViewingSeason(data, chosen), set_games_week, username), shown)

DoReactivate(s, chosen, set_games_week, username, shown) ==
    /\ pc[s] = "run"
    /\ LET data == local[s].data
       IN  /\ username \in DOMAIN data.users
           /\ ~data.users[username].active
           /\ Finish(s, "Reactivate", Reactivate(data, ViewingSeason(data, chosen), set_games_week, username), shown)

DoCreateSeason(s, chosen, set_games_week, new_season_name, shown) ==
    /\ pc[s] = "run"
    /\ LET data == local[s].data
       IN  Finish(s, "CreateSeason",
                  CreateSeason(data, ViewingSeason(data, chosen), set_games_week, new_season_name), shown)

DoSetActive(s, chosen, set_games_week, season_name, shown) ==
    /\ pc[s] = "run"
    /\ LET data == local[s].data
       IN  /\ season_name \in DOMAIN data.seasons
           /\ ~data.seasons[season_name].active
           /\ Finish(s, "SetActive",
                     SetActive(data, ViewingSeason(data, chosen), set_games_week, season_name), shown)

DoToggleLock(s, chosen, set_games_week, season_name, shown) ==
    /\ pc[s] = "run"
    /\ LET data == local[s].data
       IN  /\ season_name \in DOMAIN data.seasons
           /\ Finish(s, "ToggleLock",
                     ToggleLock(data, ViewingSeason(data, chosen), set_games_week, season_name), shown)

DoViewAllPicks(s, chosen, week_num, username, shown) ==
    /\ pc[s] = "run"
    /\ LET data == local[s].data
       IN  /\ username \in DOMAIN data.users
           /\ data.users[username].approved /\ ~data.users[username].is_admin
           /\ Finish(s, "AllPicks", AllPicksTab(data, ViewingSeason(data, chosen), week_num), shown)

\* a season button of the sidebar: the run sets st.session_state.viewing_season
\* and ends; the runs after it look at that season
DoChooseSeason(s, season_name, shown) ==
    /\ pc[s] = "run"
    /\ season_name \in DOMAIN local[s].data.seasons
    /\ form' = [viewing_season |-> season_name]
    /\ Finish(s, "ChooseSeason", Result(local[s].data, FALSE, ""), shown)

\* "Return to Current Season", shown while a past season is viewed
DoReturnToCurrent(s, chosen, shown) ==
    /\ pc[s] = "run"
    /\ ViewingSeason(local[s].data, chosen) # local[s].data.current_season
    /\ form' = [viewing_season |-> None]
    /\ Finish(s, "ReturnToCurrent", Result(local[s].data, FALSE, ""), shown)

\* a run that reaches the participant's Statistics tab with no button
\* clicked: the tab calls build_cached_results, and build_team_stats under
\* "Team Performance"; the memo keeps what the calls returned
DoViewStatistics(s, chosen, stat_view, shown) ==
    /\ pc[s] = "run"
    /\ LET data == local[s].data
           viewing_season == ViewingSeason(data, chosen)
           c1 == CallCachedResults(cache, data, now)
       IN  cache' = IF stat_view = "Personal Stats" THEN c1
                    ELSE CallTeamStats(c1, data, viewing_season, now)
    /\ msg' = IF shown THEN [op |-> "Statistics", text |-> stat_view] ELSE msg
    /\ pc' = [pc EXCEPT ![s] = "idle"]
    /\ local' = [local EXCEPT ![s] = NoRun]
    /\ UNCHANGED <<file, now>>

----------------------------------------------------------------------------
(* The inputs the specifications draw from.                                *)

GameDates == <<GameDays[1], GameDays[2], "", "", "", "">>

\* a full slate; the first game locks at instant 1, the second at instant 2
SlateA == [i \in 1..GamesPerWeek |-> [away |-> AwayTeams[i], home |-> HomeTeams[i], date |-> GameDates[i]]]

\* the same slate with the first game typed again, without the rank and
\* against another team
SlateB == [SlateA EXCEPT ![1] = [away |-> RetypedTeams[1], home |-> RetypedTeams[2], date |-> GameDates[1]]]

\* a slate with a row left blank
SlateShort == [SlateA EXCEPT ![GamesPerWeek] = [away |-> "", home |-> "", date |-> ""]]

SideSamples == { [g \in Ids |-> 1], [g \in Ids |-> 1 + (g % 2)] }

\* the admin's form may also have radios with no selection
EditSideSamples == { [g \in Ids |-> 2], [g \in Ids |-> IF g = 1 THEN 0 ELSE 1] }

ConfSamples ==
    { [g \in Ids |-> IF g < 3 THEN g + 1 ELSE 0],                      \* 1, 2, 3 on the first three games
      [g \in Ids |-> IF g >= GamesPerWeek - 3 THEN GamesPerWeek - g ELSE 0], \* 3, 2, 1 on the last three
      [g \in Ids |-> IF g < 3 THEN (IF g = 2 THEN 2 ELSE 1) ELSE 0] } \* 1, 1, 2

\* the marks of a Mark Winners form in which the admin left every radio as it
\* came up, or marked the first game that had no mark, or changed the mark of
\* the last game that had one
MarkSamples(week_data) ==
    LET n == Len(week_data.games)
        default == [i \in 1..n |-> DefaultMark(week_data, week_data.games[i])]
        unmarked == {i \in 1..n : default[i] = None}
        marked == {i \in 1..n : default[i] # None}
        touched == {i \in unmarked : \A j \in unmarked : i <= j} \cup {i \in marked : \A j \in marked : j <= i}
    IN  {default} \cup
        UNION { { [default EXCEPT ![i] = team] : team \in {week_data.games[i].away, week_data.games[i].home} } :
                    i \in touched }

----------------------------------------------------------------------------
(* Spec: one browser session at a time, so that every run sees the         *)
(* document as the run before it left it.                                  *)

Users == {"ann"}

\* the weeks the admin and the participants work on
Weeks == {1}

InitData == [DefaultData EXCEPT !.users = [u \in Users |-> ApprovedUser(u, DefaultSeason)]]

Init ==
    /\ file = InitData
    /\ now = 0
    /\ pc = [s \in {1} |-> "idle"]
    /\ local = [s \in {1} |-> NoRun]
    /\ msg = [op |-> "", text |-> ""]
    /\ form = NoForm
    /\ cache = NoCache

Sessions == DOMAIN pc

Seasons(s) == DOMAIN local[s].data.seasons

NextSaveGames ==
    \E s \in Sessions, week_num \in Weeks, rows \in {SlateA, SlateB, SlateShort} :
        pc[s] = "run" /\ \E chosen \in Seasons(s) :
            DoSaveGames(s, chosen, week_num, rows, FALSE) /\ UNCHANGED form

NextSaveWinners ==
    \E s \in Sessions, week_num \in Weeks, set_games_week \in Weeks :
        pc[s] = "run" /\ \E chosen \in Seasons(s) :
            /\ HasGames(local[s].data, chosen, week_num)
            /\ \E marks \in MarkSamples(local[s].data.seasons[chosen].weeks[week_num]) :
                  DoSaveWinners(s, chosen, set_games_week, week_num, marks, FALSE) /\ UNCHANGED form

NextSavePicks ==
    \E s \in Sessions, week_num \in Weeks, set_games_week \in Weeks, u \in Users :
        pc[s] = "run" /\ \E chosen \in Seasons(s), side \in EditSideSamples, conf \in ConfSamples :
            DoSavePicks(s, chosen, set_games_week, week_num, u, side, conf, FALSE) /\ UNCHANGED form

NextSubmitPicks ==
    \E s \in Sessions, week_num \in Weeks, u \in Users :
        pc[s] = "run" /\ \E chosen \in Seasons(s), side \in SideSamples, conf \in ConfSamples :
            DoSubmitPicks(s, chosen, week_num, u, side, conf, FALSE) /\ UNCHANGED form

NextBegin == \E s \in Sessions : Begin(s)

Next ==
    \/ NextBegin
    \/ Tick
    \/ NextSaveGames
    \/ NextSaveWinners
    \/ NextSavePicks
    \/ NextSubmitPicks

Spec == Init /\ [][Next]_vars

----------------------------------------------------------------------------
(* SpecForm: the pick forms.  The week's games are set and nobody has      *)
(* picked; the widget values of the form are any of FormSamples and stay   *)
(* as they are; ann submits them herself and the admin saves them for bob. *)

FormUsers == {"ann", "bob"}

FormData ==
    SaveGames([DefaultData EXCEPT !.users = [u \in FormUsers |-> ApprovedUser(u, DefaultSeason)]],
              DefaultSeason, 1, SlateA).data

\* every way to set the confidence selectboxes, with a few ways to set the radios
FormSamples ==
    [ side : SideSamples \cup EditSideSamples \cup {[g \in Ids |-> 0]},
      conf : [Ids -> 0..3] ]

InitForm ==
    /\ file = FormData
    /\ now \in 0..MaxNow
    /\ pc = [s \in {1} |-> "idle"]
    /\ local = [s \in {1} |-> NoRun]
    /\ msg = [op |-> "", text |-> ""]
    /\ form \in FormSamples
    /\ cache = NoCache

FormSubmitPicks ==
    \E s \in Sessions :
        DoSubmitPicks(s, DefaultSeason, 1, "ann", form.side, form.conf, TRUE) /\ UNCHANGED form

FormSavePicks ==
    \E s \in Sessions :
        DoSavePicks(s, DefaultSeason, 1, 1, "bob", form.side, form.conf, TRUE) /\ UNCHANGED form

NextForm ==
    \/ NextBegin
    \/ Tick
    \/ FormSubmitPicks
    \/ FormSavePicks

SpecForm == InitForm /\ [][NextForm]_vars

----------------------------------------------------------------------------
(* SpecConc: two browser sessions whose script runs may overlap.  The      *)
(* week's games are set; ann has two tabs open, and the admin may save     *)
(* picks for her from either session.                                      *)

ConcData ==
    SaveGames([DefaultData EXCEPT !.users = [u \in {"ann"} |-> ApprovedUser(u, DefaultSeason)]],
              DefaultSeason, 1, SlateA).data

\* two ways to give the weights 1, 2 and 3
ValidConfSamples == {conf \in ConfSamples : Cardinality({g \in Ids : conf[g] = 1}) = 1}

InitConc ==
    /\ file = ConcData
    /\ now = 0
    /\ pc = [s \in {1, 2} |-> "idle"]
    /\ local = [s \in {1, 2} |-> NoRun]
    /\ msg = [op |-> "", text |-> ""]
    /\ form = NoForm
    /\ cache = NoCache

ConcSubmitPicks ==
    \E s \in Sessions, side \in SideSamples, conf \in ValidConfSamples :
        DoSubmitPicks(s, DefaultSeason, 1, "ann", side, conf, TRUE) /\ UNCHANGED form

ConcSavePicks ==
    \E s \in Sessions, side \in EditSideSamples, conf \in ValidConfSamples :
        DoSavePicks(s, DefaultSeason, 1, 1, "ann", side, conf, TRUE) /\ UNCHANGED form

NextConc ==
    \/ NextBegin
    \/ Tick
    \/ ConcSubmitPicks
    \/ ConcSavePicks

SpecConc == InitConc /\ [][NextConc]_vars

----------------------------------------------------------------------------
(* SpecStand: the season standings.  Three users have been approved, the   *)
(* games of weeks 1 and 2 are set, picks are in and week 1 is decided; a   *)
(* fourth user awaits approval.  The admin marks winners, archives and     *)
(* reactivates a user, enters picks for the fourth user,                   *)
(* creates and activates the next season and approves the fourth user;     *)
(* bob submits his picks for week 2.  Nobody sets viewing_season.          *)

NextSeason == "2026-2027"

First3 == [g \in Ids |-> IF g < 3 THEN g + 1 ELSE 0]

Last3 == [g \in Ids |-> IF g >= GamesPerWeek - 3 THEN GamesPerWeek - g ELSE 0]

Away == [g \in Ids |-> 1]

Home == [g \in Ids |-> 2]

Alternating == [g \in Ids |-> 1 + (g % 2)]

NoDates == [i \in 1..GamesPerWeek |-> [SlateA[i] EXCEPT !.date = ""]]

\* the document at the start, step by step
StandUsers ==
    [DefaultData EXCEPT !.users = [u \in {"ann", "bob", "cy"} |-> ApprovedUser(u, DefaultSeason)],
                        !.pending_users = {"dee"}]

StandGames == SaveGames(SaveGames(StandUsers, DefaultSeason, 1, NoDates).data, DefaultSeason, 2, NoDates).data

StandAnn1 == SubmitPicks(StandGames, DefaultSeason, 1, "ann", Away, First3, 0, 0).data

StandBob1 == SubmitPicks(StandAnn1, DefaultSeason, 1, "bob", Alternating, Last3, 0, 0).data

StandCy1 == SavePicks(StandBob1, DefaultSeason, 1, 1, "cy", Home, First3, 0).data

StandAnn2 == SubmitPicks(StandCy1, DefaultSeason, 2, "ann", Alternating, First3, 0, 0).data

StandCy2 == SubmitPicks(StandAnn2, DefaultSeason, 2, "cy", Away, Last3, 0, 0).data

StandData ==
    SaveWinners(StandCy2, DefaultSeason, 1, 1,
                [i \in 1..GamesPerWeek |-> IF i % 2 = 1 THEN NoDates[i].away ELSE NoDates[i].home]).data

InitStand ==
    /\ file = StandData
    /\ now = 0
    /\ pc = [s \in {1} |-> "idle"]
    /\ local = [s \in {1} |-> NoRun]
    /\ msg = [op |-> "", text |-> ""]
    /\ form = NoForm
    /\ cache = NoCache

Current(s) == local[s].data.current_season

StandSaveWinners ==
    \E s \in Sessions, week_num \in {1, 2} :
        /\ pc[s] = "run"
        /\ HasGames(local[s].data, Current(s), week_num)
        /\ \E marks \in MarkSamples(local[s].data.seasons[Current(s)].weeks[week_num]) :
              DoSaveWinners(s, Current(s), 1, week_num, marks, FALSE) /\ UNCHANGED form

StandSubmitPicks ==
    \E s \in Sessions :
        pc[s] = "run" /\ DoSubmitPicks(s, Current(s), 2, "bob", Home, First3, FALSE) /\ UNCHANGED form

\* the weight 3 on each of the first three games
AllThrees == [g \in Ids |-> IF g < 3 THEN 3 ELSE 0]

\* the admin enters week 1 picks for dee, the same as bob's, with bob's
\* weights or with the weight 3 three times
StandSavePicks ==
    \E s \in Sessions, conf \in {Last3, AllThrees} :
        pc[s] = "run" /\ DoSavePicks(s, Current(s), 1, 1, "dee", Alternating, conf, FALSE) /\ UNCHANGED form

StandApprove ==
    \E s \in Sessions :
        pc[s] = "run" /\ DoApprove(s, Current(s), 1, "dee", FALSE) /\ UNCHANGED form

StandArchive ==
    \E s \in Sessions :
        pc[s] = "run" /\ DoArchive(s, Current(s), 1, "cy", FALSE) /\ UNCHANGED form

StandReactivate ==
    \E s \in Sessions :
        pc[s] = "run" /\ DoReactivate(s, Current(s), 1, "cy", FALSE) /\ UNCHANGED form

StandCreateSeason ==
    \E s \in Sessions :
        /\ pc[s] = "run"
        /\ NextSeason \notin DOMAIN local[s].data.seasons
        /\ DoCreateSeason(s, Current(s), 1, NextSeason, FALSE) /\ UNCHANGED form

StandSetActive ==
    \E s \in Sessions, season_name \in {DefaultSeason, NextSeason} :
        pc[s] = "run" /\ DoSetActive(s, Current(s), 1, season_name, FALSE) /\ UNCHANGED form

NextStand ==
    \/ NextBegin
    \/ StandSaveWinners
    \/ StandSubmitPicks
    \/ StandSavePicks
    \/ StandApprove
    \/ StandArchive
    \/ StandReactivate
    \/ StandCreateSeason
    \/ StandSetActive

SpecStand == InitStand /\ [][NextStand]_vars

----------------------------------------------------------------------------
(* SpecGate: the All Picks gate.  Five users are approved, the games of    *)
(* week 1 are set and three of the users have picked.  The other two       *)
(* submit, the admin marks winners and archives and reactivates eve, and   *)
(* ann opens the All Picks tab.  The message of every run is kept.         *)

GateUsers ==
    [DefaultData EXCEPT !.users = [u \in {"ann", "bob", "cy", "dee", "eve"} |-> ApprovedUser(u, DefaultSeason)]]

GateGames == SaveGames(GateUsers, DefaultSeason, 1, NoDates).data

GateAnn == SubmitPicks(GateGames, DefaultSeason, 1, "ann", Away, First3, 0, 0).data

GateBob == SubmitPicks(GateAnn, DefaultSeason, 1, "bob", Alternating, Last3, 0, 0).data

GateData == SubmitPicks(GateBob, DefaultSeason, 1, "cy", Home, First3, 0, 0).data

InitGate ==
    /\ file = GateData
    /\ now = 0
    /\ pc = [s \in {1} |-> "idle"]
    /\ local = [s \in {1} |-> NoRun]
    /\ msg = [op |-> "", text |-> ""]
    /\ form = NoForm
    /\ cache = NoCache

GateSubmitPicks ==
    \E s \in Sessions, u \in {"dee", "eve"} :
        pc[s] = "run" /\ DoSubmitPicks(s, Current(s), 1, u, Away, Last3, TRUE) /\ UNCHANGED form

GateSaveWinners ==
    \E s \in Sessions :
        /\ pc[s] = "run"
        /\ \E marks \in MarkSamples(local[s].data.seasons[Current(s)].weeks[1]) :
              DoSaveWinners(s, Current(s), 1, 1, marks, TRUE) /\ UNCHANGED form

GateArchive ==
    \E s \in Sessions :
        pc[s] = "run" /\ DoArchive(s, Current(s), 1, "eve", TRUE) /\ UNCHANGED form

GateReactivate ==
    \E s \in Sessions :
        pc[s] = "run" /\ DoReactivate(s, Current(s), 1, "eve", TRUE) /\ UNCHANGED form

GateViewAllPicks ==
    \E s \in Sessions :
        pc[s] = "run" /\ DoViewAllPicks(s, Current(s), 1, "ann", TRUE) /\ UNCHANGED form

NextGate ==
    \/ NextBegin
    \/ GateSubmitPicks
    \/ GateSaveWinners
    \/ GateArchive
    \/ GateReactivate
    \/ GateViewAllPicks

SpecGate == InitGate /\ [][NextGate]_vars

----------------------------------------------------------------------------
(* SpecSeason: two seasons.  ann has picked week 1 of the first season and *)
(* the next season has been created.  The admin looks at either season,    *)
(* makes either the current one, and saves games and winners of week 1.    *)
(* form holds st.session_state.viewing_season; the message of every run is *)
(* kept.                                                                   *)

SeasonUsers == [DefaultData EXCEPT !.users = [u \in {"ann"} |-> ApprovedUser(u, DefaultSeason)]]

SeasonGames == SaveGames(SeasonUsers, DefaultSeason, 1, NoDates).data

SeasonAnn == SubmitPicks(SeasonGames, DefaultSeason, 1, "ann", Away, First3, 0, 0).data

SeasonData == CreateSeason(SeasonAnn, DefaultSeason, 1, NextSeason).data

InitSeason ==
    /\ file = SeasonData
    /\ now = 0
    /\ pc = [s \in {1} |-> "idle"]
    /\ local = [s \in {1} |-> NoRun]
    /\ msg = [op |-> "", text |-> ""]
    /\ form = [viewing_season |-> None]
    /\ cache = NoCache

SeasonChoose ==
    \E s \in Sessions, season_name \in {DefaultSeason, NextSeason} : DoChooseSeason(s, season_name, TRUE)

SeasonReturn ==
    \E s \in Sessions : DoReturnToCurrent(s, form.viewing_season, TRUE)

SeasonSetActive ==
    \E s \in Sessions, season_name \in {DefaultSeason, NextSeason} :
        DoSetActive(s, form.viewing_season, 1, season_name, TRUE) /\ UNCHANGED form

SeasonSaveGames ==
    \E s \in Sessions, rows \in {NoDates, SlateShort} :
        DoSaveGames(s, form.viewing_season, 1, rows, TRUE) /\ UNCHANGED form

\* the marks of MarkSamples in which only the last game may go to the home team
SeasonMarks(week_data) ==
    {marks \in MarkSamples(week_data) :
        \A i \in 1..(Len(week_data.games) - 1) : marks[i] # week_data.games[i].home}

SeasonSaveWinners ==
    \E s \in Sessions :
        /\ pc[s] = "run"
        /\ LET season == ViewingSeason(local[s].data, form.viewing_season)
           IN  /\ HasGames(local[s].data, season, 1)
               /\ \E marks \in SeasonMarks(local[s].data.seasons[season].weeks[1]) :
                      DoSaveWinners(s, form.viewing_season, 1, 1, marks, TRUE) /\ UNCHANGED form

NextSeasonStep ==
    \/ NextBegin
    \/ SeasonChoose
    \/ SeasonReturn
    \/ SeasonSetActive
    \/ SeasonSaveGames
    \/ SeasonSaveWinners

SpecSeason == InitSeason /\ [][NextSeasonStep]_vars

----------------------------------------------------------------------------
(* SpecCache: the memo of the Statistics tab.  ann and bob are approved,   *)
(* the games of week 1 are set without dates and ann has picked.  The      *)
(* admin marks winners and edits ann's picks, bob submits, and the         *)
(* Statistics tab is opened under either view as time passes.  Every input *)
(* is one the handler saves; the message of every run is kept.             *)

CacheUsers == [DefaultData EXCEPT !.users = [u \in {"ann", "bob"} |-> ApprovedUser(u, DefaultSeason)]]

CacheGames == SaveGames(CacheUsers, DefaultSeason, 1, NoDates).data

CacheData == SubmitPicks(CacheGames, DefaultSeason, 1, "ann", Away, First3, 0, 0).data

InitCache ==
    /\ file = CacheData
    /\ now = 0
    /\ pc = [s \in {1} |-> "idle"]
    /\ local = [s \in {1} |-> NoRun]
    /\ msg = [op |-> "", text |-> ""]
    /\ form = NoForm
    /\ cache = NoCache

CacheSaveWinners ==
    \E s \in Sessions :
        /\ pc[s] = "run"
        /\ \E marks \in SeasonMarks(local[s].data.seasons[Current(s)].weeks[1]) :
              DoSaveWinners(s, Current(s), 1, 1, marks, TRUE) /\ UNCHANGED form

CacheSubmitPicks ==
    \E s \in Sessions :
        pc[s] = "run" /\ DoSubmitPicks(s, Current(s), 1, "bob", Alternating, Last3, TRUE) /\ UNCHANGED form

CacheSavePicks ==
    \E s \in Sessions, side \in {Away, Home} :
        pc[s] = "run" /\ DoSavePicks(s, Current(s), 1, 1, "ann", side, First3, TRUE) /\ UNCHANGED form

CacheViewStatistics ==
    \E s \in Sessions, stat_view \in {"Personal Stats", "Team Performance"} :
        pc[s] = "run" /\ DoViewStatistics(s, Current(s), stat_view, TRUE) /\ UNCHANGED form

NextCache ==
    \/ NextBegin
    \/ Tick
    \/ CacheSaveWinners
    \/ CacheSubmitPicks
    \/ CacheSavePicks
    \/ CacheViewStatistics

SpecCache == InitCache /\ [][NextCache]_vars

----------------------------------------------------------------------------
(* SpecNames: the same teams under several spellings.  The admin types the *)
(* games of week 1 again and again, each time in another style (in bold,   *)
(* with a rank, with Miami bare or as Miami (FL)); ann picks and the admin   *)
(* marks winners, under whatever spelling the form shows then.             *)

NamesAway == <<"Duke", "Miami (OH)", "Michigan St.", "Kansas", "Gonzaga", "Baylor">>
NamesHome == <<"Miami", "Miami (FL)", "UNC", "Ohio St.", "UCLA", "Purdue">>

\* a style of typing: swap types bare Miami for Miami (FL) and the reverse
NameStyles ==
    { [bold |-> FALSE, rank |-> "", swap |-> FALSE],
      [bold |-> FALSE, rank |-> "1", swap |-> FALSE],
      [bold |-> TRUE, rank |-> "", swap |-> FALSE],
      [bold |-> FALSE, rank |-> "", swap |-> TRUE],
      [bold |-> TRUE, rank |-> "12", swap |-> TRUE] }

Typed(base, style) ==
    LET b1 == IF ~style.swap THEN base
              ELSE IF base = "Miami" THEN "Miami (FL)"
              ELSE IF base = "Miami (FL)" THEN "Miami"
              ELSE base
        b2 == IF style.rank = "" THEN b1 ELSE b1 \o " (" \o style.rank \o ")"
    IN  IF style.bold THEN "**" \o b2 \o "**" ELSE b2

NamesSlate(style) ==
    [i \in 1..GamesPerWeek |->
        [away |-> Typed(NamesAway[i], style), home |-> Typed(NamesHome[i], style), date |-> ""]]

PlainStyle == [bold |-> FALSE, rank |-> "", swap |-> FALSE]

NamesUsers == [DefaultData EXCEPT !.users = [u \in {"ann"} |-> ApprovedUser(u, DefaultSeason)]]

NamesData == SaveGames(NamesUsers, DefaultSeason, 1, NamesSlate(PlainStyle)).data

InitNames ==
    /\ file = NamesData
    /\ now = 0
    /\ pc = [s \in {1} |-> "idle"]
    /\ local = [s \in {1} |-> NoRun]
    /\ msg = [op |-> "", text |-> ""]
    /\ form = NoForm
    /\ cache = NoCache

NamesSaveGames ==
    \E s \in Sessions, style \in NameStyles :
        pc[s] = "run" /\ DoSaveGames(s, Current(s), 1, NamesSlate(style), FALSE) /\ UNCHANGED form

NamesSubmitPicks ==
    \E s \in Sessions, side \in {Away, Home, Alternating} :
        pc[s] = "run" /\ DoSubmitPicks(s, Current(s), 1, "ann", side, First3, FALSE) /\ UNCHANGED form

\* the radios of every game set at once, under the spelling on the form
NamesMarks(week_data) ==
    { [i \in 1..Len(week_data.games) |->
          IF side[week_data.games[i].id] = 1 THEN week_data.games[i].away ELSE week_data.games[i].home] :
      side \in {Away, [g \in Ids |-> 2 - (g % 2)]} }

NamesSaveWinners ==
    \E s \in Sessions :
        /\ pc[s] = "run"
        /\ \E marks \in NamesMarks(local[s].data.seasons[Current(s)].weeks[1]) :
              DoSaveWinners(s, Current(s), 1, 1, marks, FALSE) /\ UNCHANGED form

NextNames ==
    \/ NextBegin
    \/ NamesSaveGames
    \/ NamesSubmitPicks
    \/ NamesSaveWinners

SpecNames == InitNames /\ [][NextNames]_vars

----------------------------------------------------------------------------
(* SpecTyped: normalize_team_name on typed names.  A name is a few pieces  *)
(* typed one after the other; form holds the name and how many times       *)
(* normalize_team_name has been applied to it.                             *)

MaxPieces == 3

NamePieces == {"Duke", "Miami", " (1)", " (OH)", "**", "Michigan St", ".", " "}

RECURSIVE TypedNames(_)
TypedNames(n) ==
    IF n = 0 THEN {""}
    ELSE LET shorter == TypedNames(n - 1)
         IN  shorter \cup {name \o piece : name \in shorter, piece \in NamePieces}

InitTyped ==
    /\ file = DefaultData
    /\ now = 0
    /\ pc = [s \in {1} |-> "idle"]
    /\ local = [s \in {1} |-> NoRun]
    /\ msg = [op |-> "", text |-> ""]
    /\ form \in [name : TypedNames(MaxPieces), applied : {0}]
    /\ cache = NoCache

NormalizeName ==
    /\ form.applied < 2
    /\ form' = [name |-> normalize_team_name(form.name), applied |-> form.applied + 1]
    /\ UNCHANGED <<file, now, pc, local, msg, cache>>

NextTyped == NormalizeName

SpecTyped == InitTyped /\ [][NextTyped]_vars

----------------------------------------------------------------------------
(* SpecLock: check_game_locked under every kind of settings.  The document *)
(* holds a deadline time and a timezone, good or bad, and the first game   *)
(* of week 1 has a date, good or bad; time passes and ann submits picks    *)
(* for the games that are open.                                            *)

LockDates == {GameDays[1], GameDays[2], "", "nan", "01/05/2026"}

LockTimes == {"16:30", "00:00", "23:59", "7:05", "25:00", "16:30:00", "noon"}

LockZones == {"America/Los_Angeles", "America/New_York", "UTC", "Mars/Olympus"}

LockSlate(date) == [NoDates EXCEPT ![1].date = date]

LockUsers(settings) ==
    [DefaultData EXCEPT !.users = [u \in {"ann"} |-> ApprovedUser(u, DefaultSeason)],
                        !.settings = settings]

LockData(date, settings) == SaveGames(LockUsers(settings), DefaultSeason, 1, LockSlate(date)).data

InitLock ==
    /\ \E date \in LockDates, deadline_time \in LockTimes, timezone \in LockZones :
          file = LockData(date, [deadline_time |-> deadline_time, timezone |-> timezone])
    /\ now = 0
    /\ pc = [s \in {1} |-> "idle"]
    /\ local = [s \in {1} |-> NoRun]
    /\ msg = [op |-> "", text |-> ""]
    /\ form = NoForm
    /\ cache = NoCache

LockSubmitPicks ==
    \E s \in Sessions :
        pc[s] = "run" /\ DoSubmitPicks(s, Current(s), 1, "ann", Away, Last3, TRUE) /\ UNCHANGED form

NextLock ==
    \/ NextBegin
    \/ Tick
    \/ LockSubmitPicks

SpecLock == InitLock /\ [][NextLock]_vars

----------------------------------------------------------------------------
(* SpecReadOnly: a season that is locked and unlocked.  ann and bob are    *)
(* approved and the games of week 1 are set; the admin locks and unlocks   *)
(* the season, saves games and winners and edits ann's picks, and ann and  *)
(* bob submit.  The message of every run is kept.                          *)

ReadOnlyUsers == [DefaultData EXCEPT !.users = [u \in {"ann", "bob"} |-> ApprovedUser(u, DefaultSeason)]]

ReadOnlyData == SaveGames(ReadOnlyUsers, DefaultSeason, 1, NoDates).data

InitReadOnly ==
    /\ file = ReadOnlyData
    /\ now = 0
    /\ pc = [s \in {1} |-> "idle"]
    /\ local = [s \in {1} |-> NoRun]
    /\ msg = [op |-> "", text |-> ""]
    /\ form = NoForm
    /\ cache = NoCache

ReadOnlyToggleLock ==
    \E s \in Sessions :
        pc[s] = "run" /\ DoToggleLock(s, Current(s), 1, DefaultSeason, TRUE) /\ UNCHANGED form

ReadOnlySaveGames ==
    \E s \in Sessions, rows \in {NoDates, SlateA} :
        pc[s] = "run" /\ DoSaveGames(s, Current(s), 1, rows, TRUE) /\ UNCHANGED form

ReadOnlySaveWinners ==
    \E s \in Sessions :
        /\ pc[s] = "run"
        /\ \E marks \in SeasonMarks(local[s].data.seasons[Current(s)].weeks[1]) :
              DoSaveWinners(s, Current(s), 1, 1, marks, TRUE) /\ UNCHANGED form

ReadOnlySubmitPicks ==
    \E s \in Sessions, u \in {"ann", "bob"} :
        pc[s] = "run" /\ DoSubmitPicks(s, Current(s), 1, u, Away, First3, TRUE) /\ UNCHANGED form

ReadOnlySavePicks ==
    \E s \in Sessions :
        pc[s] = "run" /\ DoSavePicks(s, Current(s), 1, 1, "ann", Home, Last3, TRUE) /\ UNCHANGED form

NextReadOnly ==
    \/ NextBegin
    \/ ReadOnlyToggleLock
    \/ ReadOnlySaveGames
    \/ ReadOnlySaveWinners
    \/ ReadOnlySubmitPicks
    \/ ReadOnlySavePicks

SpecReadOnly == InitReadOnly /\ [][NextReadOnly]_vars

----------------------------------------------------------------------------
(* SpecActive: the Seasons tab from the document of a new installation.    *)
(* Two admin sessions create seasons and set seasons active, each on the   *)
(* copy of the document its run loaded.                                    *)

SeasonNames == {DefaultSeason, NextSeason, "2027-2028", ""}

InitActive ==
    /\ file = DefaultData
    /\ now = 0
    /\ pc = [s \in {1, 2} |-> "idle"]
    /\ local = [s \in {1, 2} |-> NoRun]
    /\ msg = [op |-> "", text |-> ""]
    /\ form = NoForm
    /\ cache = NoCache

ActiveCreateSeason ==
    \E s \in Sessions, new_season_name \in SeasonNames :
        pc[s] = "run" /\ DoCreateSeason(s, Current(s), 1, new_season_name, FALSE) /\ UNCHANGED form

ActiveSetActive ==
    \E s \in Sessions, season_name \in SeasonNames :
        pc[s] = "run" /\ DoSetActive(s, Current(s), 1, season_name, FALSE) /\ UNCHANGED form

NextActive ==
    \/ NextBegin
    \/ ActiveCreateSeason
    \/ ActiveSetActive

SpecActive == InitActive /\ [][NextActive]_vars

----------------------------------------------------------------------------
(* SpecWriters: two browser sessions that write the same file.  ann and bob *)
(* are approved and the games of week 1 are set; in either session the      *)
(* admin may save winners and ann or bob may submit picks.                  *)

WritersData ==
    SaveGames([DefaultData EXCEPT !.users = [u \in {"ann", "bob"} |-> ApprovedUser(u, DefaultSeason)]],
              DefaultSeason, 1, SlateA).data

\* the admin marks the away team of the first game, or of every game
WritersMarks(week_data) ==
    { [i \in 1..Len(week_data.games) |-> IF i = 1 THEN week_data.games[i].away ELSE None],
      [i \in 1..Len(week_data.games) |-> week_data.games[i].away] }

InitWriters ==
    /\ file = WritersData
    /\ now = 0
    /\ pc = [s \in {1, 2} |-> "idle"]
    /\ local = [s \in {1, 2} |-> NoRun]
    /\ msg = [op |-> "", text |-> ""]
    /\ form = NoForm
    /\ cache = NoCache

WritersSaveWinners ==
    \E s \in Sessions :
        /\ pc[s] = "run"
        /\ \E marks \in WritersMarks(local[s].data.seasons[DefaultSeason].weeks[1]) :
               DoSaveWinners(s, DefaultSeason, 1, 1, marks, TRUE) /\ UNCHANGED form

WritersSubmitPicks ==
    \E s \in Sessions, username \in {"ann", "bob"} :
        DoSubmitPicks(s, DefaultSeason, 1, username, Away, First3, TRUE) /\ UNCHANGED form

NextWriters ==
    \/ NextBegin
    \/ Tick
    \/ WritersSaveWinners
    \/ WritersSubmitPicks

SpecWriters == InitWriters /\ [][NextWriters]_vars

----------------------------------------------------------------------------
(* SpecTwoSeasons: a finished season and the one that followed it.  ann and *)
(* bob were approved in the first season, whose week 1 was played and       *)
(* decided without picks of theirs; the next season is the current one and  *)
(* its week 1 has games.  ann and bob submit picks for week 1 and the       *)
(* admin saves winners and makes either season the current one.            *)

TwoUsers == [DefaultData EXCEPT !.users = [u \in {"ann", "bob"} |-> ApprovedUser(u, DefaultSeason)]]

TwoFirstGames == SaveGames(TwoUsers, DefaultSeason, 1, NoDates).data

TwoFirstWinners ==
    SaveWinners(TwoFirstGames, DefaultSeason, 1, 1, [i \in 1..GamesPerWeek |-> NoDates[i].away]).data

TwoCreated == CreateSeason(TwoFirstWinners, DefaultSeason, 1, NextSeason).data

TwoActive == SetActive(TwoCreated, DefaultSeason, 1, NextSeason).data

TwoData == SaveGames(TwoActive, NextSeason, 1, NoDates).data

InitTwoSeasons ==
    /\ file = TwoData
    /\ now = 0
    /\ pc = [s \in {1} |-> "idle"]
    /\ local = [s \in {1} |-> NoRun]
    /\ msg = [op |-> "", text |-> ""]
    /\ form = NoForm
    /\ cache = NoCache

TwoSubmitPicks ==
    \E s \in Sessions, username \in {"ann", "bob"}, side \in {Away, Home} :
        pc[s] = "run" /\ DoSubmitPicks(s, Current(s), 1, username, side, First3, TRUE) /\ UNCHANGED form

TwoSaveWinners ==
    \E s \in Sessions :
        /\ pc[s] = "run"
        /\ HasGames(local[s].data, Current(s), 1)
        /\ \E marks \in SeasonMarks(local[s].data.seasons[Current(s)].weeks[1]) :
               DoSaveWinners(s, Current(s), 1, 1, marks, TRUE) /\ UNCHANGED form

TwoSetActive ==
    \E s \in Sessions, season_name \in {DefaultSeason, NextSeason} :
        pc[s] = "run" /\ DoSetActive(s, Current(s), 1, season_name, TRUE) /\ UNCHANGED form

NextTwoSeasons ==
    \/ NextBegin
    \/ TwoSubmitPicks
    \/ TwoSaveWinners
    \/ TwoSetActive

SpecTwoSeasons == InitTwoSeasons /\ [][NextTwoSeasons]_vars

----------------------------------------------------------------------------
(* What the claims speak of.                                               *)

\* the users that have a submission for the week
Submitters(data, week_num) == {u \in DOMAIN data.users : week_num \in DOMAIN data.users[u].picks}

\* the games of a submission that were picked correctly: a winner is declared
\* and its normalized name is the normalized pick
CorrectGames(week_data, submission) ==
    {g \in DOMAIN submission.picks :
        /\ g \in DOMAIN week_data.winners
        /\ Normalized(week_data.winners[g]) = Normalized(submission.picks[g])}

\* the sum of the weights of the confidence pairs that name a game of G
RECURSIVE WeightOn(_, _)
WeightOn(confidence, G) ==
    IF confidence = <<>> THEN 0
    ELSE (IF confidence[1][1] \in G THEN confidence[1][2] ELSE 0) + WeightOn(Tail(confidence), G)

\* every (season, week, user) of the document with a submission and a week record
Scored(data) ==
    {x \in (DOMAIN data.seasons) \X (1..LastWeek) \X (DOMAIN data.users) :
        /\ x[2] \in DOMAIN data.seasons[x[1]].weeks
        /\ x[2] \in DOMAIN data.users[x[3]].picks}

WeekOf(data, x) == data.seasons[x[1]].weeks[x[2]]

SubmissionOf(data, x) == data.users[x[3]].picks[x[2]]

ResultOf(data, x) == calculate_week_results(data.seasons[x[1]], x[2], x[3], data.users[x[3]])

\* C1: for a week with at least one declared winner, calculate_week_results
\* is (number of correctly picked games, sum of the weights the user put on
\* exactly those games); picked games without a declared winner add nothing.
C1_WeekResult ==
    \A x \in Scored(file) :
        WeekOf(file, x).winners # EmptyMap =>
            LET G == CorrectGames(WeekOf(file, x), SubmissionOf(file, x))
            IN  ResultOf(file, x) = <<Cardinality(G), WeightOn(SubmissionOf(file, x).confidence, G)>>

\* a partial week in which the user picked every game, got two decided games
\* right, one of them carrying weight 2, got a weighted decided game wrong and
\* has a weight on an undecided game: the result is (2, 2)
C1_Witness ==
    \E x \in Scored(file) :
        LET week_data == WeekOf(file, x)
            submission == SubmissionOf(file, x)
            weights == ConfidenceAssignments(submission.confidence)
            G == CorrectGames(week_data, submission)
        IN  /\ DOMAIN submission.picks = Ids
            /\ DOMAIN week_data.winners # Ids
            /\ ResultOf(file, x) = <<2, 2>>
            /\ \E g \in G : g \in DOMAIN weights /\ weights[g] = 2
            /\ \E g \in DOMAIN week_data.winners \ G : g \in DOMAIN weights
            /\ \E g \in Ids \ DOMAIN week_data.winners : g \in DOMAIN weights

\* the step declares a winner for exactly one more game of the week of x and
\* leaves the declared winners and the user's picks and confidence as they were
OneMoreWinner(x, g) ==
    /\ x \in Scored(file) /\ x \in Scored(file')
    /\ g \notin DOMAIN WeekOf(file, x).winners
    /\ DOMAIN WeekOf(file', x).winners = DOMAIN WeekOf(file, x).winners \cup {g}
    /\ \A h \in DOMAIN WeekOf(file, x).winners : WeekOf(file', x).winners[h] = WeekOf(file, x).winners[h]
    /\ SubmissionOf(file', x).picks = SubmissionOf(file, x).picks
    /\ SubmissionOf(file', x).confidence = SubmissionOf(file, x).confidence

\* what game g alone contributes to the result of x in the document
Contribution(data, x, g) ==
    LET hit == g \in CorrectGames(WeekOf(data, x), SubmissionOf(data, x))
    IN  <<IF hit THEN 1 ELSE 0, IF hit THEN WeightOn(SubmissionOf(data, x).confidence, {g}) ELSE 0>>

\* C2: declaring a winner for one more game changes a user's result for the
\* week by that game's own contribution and by nothing else: neither counter
\* goes down, correct grows by at most 1 and the points by at most the game's weight.
C2_OneMoreGame ==
    [][\A x \in Scored(file) : \A g \in Ids :
          OneMoreWinner(x, g) =>
              /\ ResultOf(file', x)[1] = ResultOf(file, x)[1] + Contribution(file', x, g)[1]
              /\ ResultOf(file', x)[2] = ResultOf(file, x)[2] + Contribution(file', x, g)[2]
              /\ ResultOf(file', x)[1] - ResultOf(file, x)[1] \in {0, 1}
              /\ ResultOf(file', x)[2] - ResultOf(file, x)[2] \in 0..3]_vars

\* winners were saved game after game: the stored result of a partial week
\* counts three correct picks and the points of two weighted ones
C2_Witness ==
    \E x \in Scored(file) :
        /\ DOMAIN WeekOf(file, x).winners # Ids
        /\ ~WeekOf(file, x).winners_set
        /\ SubmissionOf(file, x).cached # <<>>
        /\ SubmissionOf(file, x).cached[1] = 3
        /\ SubmissionOf(file, x).cached[2] >= 3

\* every stored submission of the document, as <<user, week>>
Stored(data) == {x \in (DOMAIN data.users) \X (1..LastWeek) : x[2] \in DOMAIN data.users[x[1]].picks}

\* the game ids a confidence list names
RECURSIVE ConfGames(_)
ConfGames(confidence) ==
    IF confidence = <<>> THEN {} ELSE {confidence[1][1]} \cup ConfGames(Tail(confidence))

\* how many pairs of a confidence list carry the weight v
RECURSIVE CountWeight(_, _)
CountWeight(confidence, v) ==
    IF confidence = <<>> THEN 0
    ELSE (IF confidence[1][2] = v THEN 1 ELSE 0) + CountWeight(Tail(confidence), v)

\* the weights of a confidence list are 1, 2 and 3, each once, and nothing else
WeightsAre123(confidence) ==
    /\ \A i \in 1..Len(confidence) : confidence[i][2] \in {1, 2, 3}
    /\ \A v \in {1, 2, 3} : CountWeight(confidence, v) = 1

\* C3: every stored submission has exactly 3 confidence pairs, with the
\* weights 1, 2 and 3, on three different games that are keys of its picks.
C3_StoredConfidence ==
    \A x \in Stored(file) :
        LET submission == file.users[x[1]].picks[x[2]]
        IN  /\ Len(submission.confidence) = 3
            /\ WeightsAre123(submission.confidence)
            /\ Cardinality(ConfGames(submission.confidence)) = 3
            /\ ConfGames(submission.confidence) \subseteq DOMAIN submission.picks

\* both handlers have stored a submission: ann's own, made after the first
\* game locked, and the one the admin saved for bob
C3_Witness ==
    /\ <<"ann", 1>> \in Stored(file) /\ <<"bob", 1>> \in Stored(file)
    /\ DOMAIN file.users["ann"].picks[1].picks = Ids \ {0}
    /\ DOMAIN file.users["bob"].picks[1].picks = Ids

\* the step is the end of a run of the named handler
HandlerStep(op) == \E s \in Sessions : pc[s] = "run" /\ pc'[s] = "idle" /\ msg'.op = op

\* what the Make Picks form of the running session submits, and the games
\* that are open when the button's check runs
SubmittedPicks(s) ==
    MakeFormPicks(local[s].data.seasons[DefaultSeason].weeks[1].games, local[s].data.settings,
                  local[s].t, form.side, 1)

SubmittedConfidence(s) ==
    MakeFormConfidence(local[s].data.seasons[DefaultSeason].weeks[1].games, local[s].data.settings,
                       local[s].t, form.conf, 1)

RequiredGameIds(s) ==
    {g \in Ids : \E i \in 1..Len(local[s].data.seasons[DefaultSeason].weeks[1].games) :
        LET game == local[s].data.seasons[DefaultSeason].weeks[1].games[i]
        IN  game.id = g /\ ~check_game_locked(game.date, local[s].data.settings, now)}

\* the outcome the four rules give, first failure first
FirstFailure(picks, confidence, required_game_ids) ==
    IF DOMAIN picks # required_game_ids THEN "Must pick all unlocked games"
    ELSE IF Len(confidence) # 3 THEN "Must assign exactly 3 confidence picks"
    ELSE IF ~WeightsAre123(confidence) THEN "Confidence picks must use each value once (1, 2, 3)"
    ELSE IF ~(ConfGames(confidence) \subseteq DOMAIN picks) THEN "Confidence pick on a game that is not picked"
    ELSE "Picks submitted and locked!"

\* C4: a participant's submission meets the rules in the order cover, count,
\* weights, membership, and the message is that of the first rule it fails.
C4_FirstFailureWins ==
    [][HandlerStep("SubmitPicks") =>
          \A s \in Sessions : pc[s] = "run" =>
              msg'.text = FirstFailure(SubmittedPicks(s), SubmittedConfidence(s), RequiredGameIds(s))]_vars

\* a submission with four weighted games, 1, 2, 3 and 1 again, was turned down for its count
C4_Witness ==
    /\ msg = [op |-> "SubmitPicks", text |-> "Must assign exactly 3 confidence picks"]
    /\ \A g \in Ids : form.conf[g] = (g % 3) + 1
    /\ Stored(file) = {}

\* a valid stored submission: the confidence rule of C3, and a team for every pick
ValidSubmission(submission) ==
    /\ Len(submission.confidence) = 3
    /\ WeightsAre123(submission.confidence)
    /\ Cardinality(ConfGames(submission.confidence)) = 3
    /\ ConfGames(submission.confidence) \subseteq DOMAIN submission.picks
    /\ \A g \in DOMAIN submission.picks : submission.picks[g] # None

Rejections ==
    { "Must pick all unlocked games", "Must assign exactly 3 confidence picks",
      "Confidence picks must use each value once (1, 2, 3)",
      "Must assign exactly one each of 1, 2, and 3" }

\* C5 as claimed: a rejected submission, the participant's or the admin's,
\* writes nothing, and whatever is stored satisfies every rule, a team for
\* every pick included.
C5_AllOrNothing ==
    [][(HandlerStep("SubmitPicks") \/ HandlerStep("SavePicks")) =>
          /\ msg'.text \in Rejections => file' = file
          /\ \A x \in Stored(file') : ValidSubmission(file'.users[x[1]].picks[x[2]])]_vars

\* C6: a participant's submission is accepted only with a pick for exactly
\* the games that are not locked when the button's check runs.
C6_CoversOpenGames ==
    [][(HandlerStep("SubmitPicks") /\ msg'.text = "Picks submitted and locked!") =>
          \A s \in Sessions : pc[s] = "run" =>
              DOMAIN file'.users["ann"].picks[1].picks = RequiredGameIds(s)]_vars

\* the first game locked before ann submitted: her accepted picks leave it out
C6_Witness ==
    /\ <<"ann", 1>> \in Stored(file)
    /\ file.users["ann"].picks[1].submitted = 1
    /\ DOMAIN file.users["ann"].picks[1].picks = Ids \ {0}
    /\ msg = [op |-> "SubmitPicks", text |-> "Picks submitted and locked!"]

\* C7 as claimed: once a submission is stored, no participant action of any
\* session changes its picks or its confidence.
C7_SubmittedIsFinal ==
    [][HandlerStep("SubmitPicks") =>
          \A x \in Stored(file) :
              /\ x \in Stored(file')
              /\ file'.users[x[1]].picks[x[2]].picks = file.users[x[1]].picks[x[2]].picks
              /\ file'.users[x[1]].picks[x[2]].confidence = file.users[x[1]].picks[x[2]].confidence]_vars

\* the users get_season_standings is to list for a season
Eligible(data, season_name) ==
    {u \in DOMAIN data.users :
        data.users[u].approved /\ data.users[u].active /\ season_name \in data.users[u].seasons}

\* the row of a user in a standings list
RowOf(rows, u) == rows[CHOOSE i \in 1..Len(rows) : rows[i].Name = u]

\* every game of the week has a declared winner
FullyDecided(week_data) ==
    /\ week_data.games # <<>>
    /\ \A i \in 1..Len(week_data.games) : week_data.games[i].id \in DOMAIN week_data.winners

\* the weeks of a season that have a declared winner and a submission of the user
CountedWeeks(data, season_name, u) ==
    {w \in 1..LastWeek :
        /\ w \in DOMAIN data.seasons[season_name].weeks
        /\ data.seasons[season_name].weeks[w].winners # EmptyMap
        /\ w \in DOMAIN data.users[u].picks}

RECURSIVE SumOver(_, _)
SumOver(S, f) ==
    IF S = {} THEN 0 ELSE LET w == CHOOSE w \in S : TRUE IN f[w] + SumOver(S \ {w}, f)

\* the losses the rule gives a user for one week
WeekLosses(data, season_name, u, w) ==
    LET week_data == data.seasons[season_name].weeks[w]
        correct == Cardinality(CorrectGames(week_data, data.users[u].picks[w]))
    IN  IF FullyDecided(week_data)
        THEN Cardinality(DOMAIN data.users[u].picks[w].picks) - correct
        ELSE Cardinality(DOMAIN week_data.winners) - correct

\* C9 as claimed: a user's losses are, week by week, the games picked minus
\* the correct ones in a complete week and the games decided minus the
\* correct ones in a partial week, so that a game with no declared winner is
\* never among them.
C9_Losses ==
    \A season_name \in DOMAIN file.seasons : \A u \in Eligible(file, season_name) :
        LET losses == RowOf(get_season_standings(file, season_name), u).Losses
            weeks == CountedWeeks(file, season_name, u)
        IN  /\ losses = SumOver(weeks, [w \in weeks |-> WeekLosses(file, season_name, u, w)])
            /\ losses <= SumOver(weeks, [w \in weeks |->
                              Cardinality(DOMAIN file.seasons[season_name].weeks[w].winners)
                                  - Cardinality(CorrectGames(file.seasons[season_name].weeks[w],
                                                             file.users[u].picks[w]))])

\* the names of the rows of a standings list
RowNames(rows) == {rows[i].Name : i \in 1..Len(rows)}

\* C8: the standings of a season have one row for each user that is approved,
\* active and enrolled in it, and no other row; a row's Wins and Confidence
\* are the sums of calculate_week_results over the weeks of the season that
\* have a declared winner and a submission of the user.
C8_StandingsRows ==
    \A season_name \in DOMAIN file.seasons :
        LET rows == get_season_standings(file, season_name)
            season_data == file.seasons[season_name]
        IN  /\ RowNames(rows) = Eligible(file, season_name)
            /\ Len(rows) = Cardinality(Eligible(file, season_name))
            /\ \A u \in Eligible(file, season_name) :
                  LET weeks == CountedWeeks(file, season_name, u)
                      result == [w \in weeks |-> calculate_week_results(season_data, w, u, file.users[u])]
                  IN  /\ RowOf(rows, u).Wins = SumOver(weeks, [w \in weeks |-> result[w][1]])
                      /\ RowOf(rows, u).Confidence = SumOver(weeks, [w \in weeks |-> result[w][2]])

\* cy is archived and dee is enrolled in the next season only, so the first
\* season lists ann and bob; week 2 is partly decided, ann has wins in both
\* weeks and bob, with no picks for week 2, has those of week 1 only
C8_Witness ==
    /\ DOMAIN file.users = {"ann", "bob", "cy", "dee"}
    /\ ~file.users["cy"].active
    /\ file.users["dee"].seasons = {NextSeason}
    /\ RowNames(get_season_standings(file, DefaultSeason)) = {"ann", "bob"}
    /\ RowNames(get_season_standings(file, NextSeason)) = {"dee"}
    /\ LET week2 == file.seasons[DefaultSeason].weeks[2]
       IN  /\ week2.winners # EmptyMap /\ ~FullyDecided(week2) /\ ~week2.winners_set
           /\ 2 \notin DOMAIN file.users["bob"].picks
           /\ calculate_week_results(file.seasons[DefaultSeason], 2, "ann", file.users["ann"])[1] > 0
           /\ RowOf(get_season_standings(file, DefaultSeason), "ann").Wins
                 > calculate_week_results(file.seasons[DefaultSeason], 1, "ann", file.users["ann"])[1]

\* C10: the standings are in the order of wins, highest first, and among
\* equal wins in the order of confidence points, highest first; every
\* eligible user has a row, whatever ties there are.
C10_StandingsOrder ==
    \A season_name \in DOMAIN file.seasons :
        LET rows == get_season_standings(file, season_name)
        IN  /\ \A i, j \in 1..Len(rows) :
                  i < j => \/ rows[i].Wins > rows[j].Wins
                           \/ rows[i].Wins = rows[j].Wins /\ rows[i].Confidence >= rows[j].Confidence
            /\ RowNames(rows) = Eligible(file, season_name)
            /\ Len(rows) = Cardinality(Eligible(file, season_name))

\* the place of a user in the users dict
Position(u) == CHOOSE k \in 1..Len(UserOrder) : UserOrder[k] = u

\* three rows: a user has the wins of one approved before them and more
\* confidence points, and is listed above; two rows are equal on both
C10_Witness ==
    LET rows == get_season_standings(file, DefaultSeason)
    IN  /\ Len(rows) = 3
        /\ \E i, j \in 1..3 :
              /\ i < j /\ Position(rows[i].Name) > Position(rows[j].Name)
              /\ rows[i].Wins = rows[j].Wins /\ rows[i].Confidence > rows[j].Confidence
        /\ \E i, j \in 1..3 :
              i # j /\ rows[i].Wins = rows[j].Wins /\ rows[i].Confidence = rows[j].Confidence

\* the eligible users with a submission for a week
Candidates(data, season_name, week) ==
    {u \in Eligible(data, season_name) : week \in DOMAIN data.users[u].picks}

\* the (wins, confidence) pair of a user for a week of a season
PairOf(data, season_name, week, u) ==
    calculate_week_results(data.seasons[season_name], week, u, data.users[u])

\* pair p is at least pair q in the order of wins, then confidence
AtLeast(p, q) == p[1] > q[1] \/ (p[1] = q[1] /\ p[2] >= q[2])

SeqRange(seq) == {seq[i] : i \in 1..Len(seq)}

\* C11 as claimed: a weekly winner is reported only for a week whose
\* winners_set is true, and the winners reported are exactly the users,
\* among the approved, active, enrolled ones with a submission that week,
\* whose (wins, confidence) pair is the greatest.
C11_WeeklyWinners ==
    \A season_name \in DOMAIN file.seasons :
        LET reported == weekly_winners_data(file, season_name)
        IN  \A k \in 1..Len(reported) :
               LET week == reported[k].Week
                   cands == Candidates(file, season_name, week)
               IN  /\ file.seasons[season_name].weeks[week].winners_set
                   /\ SeqRange(reported[k].Winners) =
                          {u \in cands : \A v \in cands :
                              AtLeast(PairOf(file, season_name, week, u), PairOf(file, season_name, week, v))}

\* the approved, active users
ActiveUsers(data) == {u \in DOMAIN data.users : data.users[u].approved /\ data.users[u].active}

\* every approved, active user has a non-empty picks map stored for the week
AllIn(data, week) ==
    \A u \in ActiveUsers(data) :
        week \in DOMAIN data.users[u].picks /\ data.users[u].picks[week].picks # EmptyMap

\* C12: all_picks_submitted is true exactly when every approved, active user
\* has a non-empty picks map stored for the week, whatever winners are
\* declared, and the participant's All Picks tab shows the picks only then.
C12_PicksGate ==
    /\ [](\A season_name \in DOMAIN file.seasons : \A week \in 1..LastWeek :
              all_picks_submitted(file.seasons[season_name], week, file, 1) = AllIn(file, week))
    /\ [][HandlerStep("AllPicks") =>
              \A s \in Sessions : pc[s] = "run" =>
                  (msg'.text = "All picks table") = AllIn(local[s].data, 1)]_vars

\* all five users are active and the fifth has picked too: ann opened the
\* All Picks tab and got the table, with the week only partly decided
C12_Witness ==
    /\ Cardinality(ActiveUsers(file)) = 5
    /\ AllIn(file, 1)
    /\ msg = [op |-> "AllPicks", text |-> "All picks table"]
    /\ file.seasons[DefaultSeason].weeks[1].winners # EmptyMap
    /\ ~file.seasons[DefaultSeason].weeks[1].winners_set

\* C13 as claimed: after every save of winners for a week of the season the
\* admin looks at, the stored result of every user with a submission for
\* that week is calculate_week_results on that week of that season as saved.
C13_RecomputedOnSave ==
    [][HandlerStep("SaveWinners") =>
          \A s \in Sessions : pc[s] = "run" =>
              LET season == ViewingSeason(local[s].data, form.viewing_season)
              IN  \A u \in Submitters(file', 1) :
                      file'.users[u].picks[1].cached =
                          calculate_week_results(file'.seasons[season], 1, u, file'.users[u])]_vars

\* C14 as claimed: every read of the Statistics tab returns the rollups of the
\* document as last written: build_cached_results of it, and under
\* "Team Performance" build_team_stats of it for the season on view.
C14_FreshAfterWrite ==
    [][HandlerStep("Statistics") =>
          /\ cache'.results.value = build_cached_results(file)
          /\ msg'.text = "Team Performance" =>
                 cache'.team_stats[file.current_season].value =
                     build_team_stats(file, file.current_season)]_vars

\* the team a typed name stands for: its base name, bare Miami being Miami (FL)
TeamNamed(name) ==
    LET bases == {NamesAway[i] : i \in DOMAIN NamesAway} \cup {NamesHome[i] : i \in DOMAIN NamesHome}
        b == CHOOSE base \in bases : \E style \in NameStyles : Typed(base, style) = name
    IN  IF b = "Miami" THEN "Miami (FL)" ELSE b

\* the games of the week on which the stored winner and the user's stored
\* pick name the same team
SameTeamGames(data, u) ==
    LET week_data == WeekOf(data, <<DefaultSeason, 1, u>>)
        picks == SubmissionOf(data, <<DefaultSeason, 1, u>>).picks
    IN  {g \in DOMAIN picks \cap DOMAIN week_data.winners :
            TeamNamed(picks[g]) = TeamNamed(week_data.winners[g])}

\* C15: a stored winner and a stored pick that name the same team under
\* different spellings (bold markup, a trailing rank, bare Miami or Miami (FL))
\* normalise to the same string and the pick is scored correct; names of
\* different teams, Miami (OH) against Miami or Miami (FL) among them, normalise
\* to different strings and are not scored.
C15_SameTeamScored ==
    \A u \in Submitters(file, 1) :
        LET week_data == WeekOf(file, <<DefaultSeason, 1, "ann">>)
            picks == SubmissionOf(file, <<DefaultSeason, 1, u>>).picks
        IN  /\ \A g \in DOMAIN picks \cap DOMAIN week_data.winners :
                   (normalize_team_name(picks[g]) = normalize_team_name(week_data.winners[g]))
                       <=> (TeamNamed(picks[g]) = TeamNamed(week_data.winners[g]))
            /\ ResultOf(file, <<DefaultSeason, 1, u>>)[1] = Cardinality(SameTeamGames(file, u))

\* ann's pick and the winner are spelled differently on every game: she is
\* right on Miami against Miami (FL) with a rank in bold, and wrong with
\* Miami (OH) against Miami
C15_Witness ==
    /\ "ann" \in Submitters(file, 1)
    /\ LET week_data == WeekOf(file, <<DefaultSeason, 1, "ann">>)
           picks == SubmissionOf(file, <<DefaultSeason, 1, "ann">>).picks
       IN  /\ DOMAIN week_data.winners = DOMAIN picks
           /\ \A g \in DOMAIN picks : picks[g] # week_data.winners[g]
           /\ picks[0] = "Miami" /\ week_data.winners[0] = "**Miami (FL) (12)**"
           /\ picks[1] = "Miami (FL)" /\ week_data.winners[1] = "**Miami (OH) (12)**"
           /\ 0 \in SameTeamGames(file, "ann")
           /\ 1 \notin SameTeamGames(file, "ann")

\* C16 as claimed: normalize_team_name applied to its own result returns it
\* unchanged, for every typed name.
C16_Idempotent ==
    [][form.applied = 1 /\ form'.applied = 2 => form'.name = form.name]_vars

\* the deadline the settings and a date stand for, in minutes of UTC from the
\* midnight before the first game day; -1 when one of them does not parse
ExpectedDeadline(date, settings) ==
    LET day == IF date = "2026-01-05" THEN 1 ELSE IF date = "2026-01-06" THEN 2 ELSE -1
        minute == IF settings.deadline_time = "16:30" THEN 16 * 60 + 30
                  ELSE IF settings.deadline_time = "00:00" THEN 0
                  ELSE IF settings.deadline_time = "23:59" THEN 23 * 60 + 59
                  ELSE IF settings.deadline_time = "7:05" THEN 7 * 60 + 5
                  ELSE -1
        west == IF settings.timezone = "America/Los_Angeles" THEN 8
                ELSE IF settings.timezone = "America/New_York" THEN 5
                ELSE IF settings.timezone = "UTC" THEN 0
                ELSE -1
    IN  IF day = -1 \/ minute = -1 \/ west = -1 THEN -1
        ELSE day * 24 * 60 + minute + west * 60

LockedNow(game) == check_game_locked(game.date, file.settings, now)

\* C17: check_game_locked is a boolean for every date and settings; it is
\* true exactly when the date, the deadline time and the timezone parse and
\* the clock is at or after the date at that time in that timezone; and with
\* the settings unchanged a game that is locked stays locked as time passes.
C17_LockedAtDeadline ==
    /\ [](\A i \in DOMAIN WeekOf(file, <<DefaultSeason, 1>>).games :
             LET game == WeekOf(file, <<DefaultSeason, 1>>).games[i]
                 deadline == ExpectedDeadline(game.date, file.settings)
             IN  /\ LockedNow(game) \in BOOLEAN
                 /\ LockedNow(game) <=> (deadline # -1 /\ TimeAt(now) >= deadline))
    /\ [][\A i \in DOMAIN WeekOf(file, <<DefaultSeason, 1>>).games :
             LET game == WeekOf(file, <<DefaultSeason, 1>>).games[i]
             IN  (LockedNow(game) /\ file'.settings = file.settings
                    /\ game \in {WeekOf(file', <<DefaultSeason, 1>>).games[j] :
                                    j \in DOMAIN WeekOf(file', <<DefaultSeason, 1>>).games})
                 => check_game_locked(game.date, file'.settings, now')]_vars

\* under 00:00 UTC the first game, played on day 2, is locked at instant 1,
\* and ann's submission made then is without it
C17_Witness ==
    /\ file.settings = [deadline_time |-> "00:00", timezone |-> "UTC"]
    /\ now = 1
    /\ WeekOf(file, <<DefaultSeason, 1>>).games[1].date = GameDays[2]
    /\ LockedNow(WeekOf(file, <<DefaultSeason, 1>>).games[1])
    /\ "ann" \in Submitters(file, 1)
    /\ 0 \notin DOMAIN SubmissionOf(file, <<DefaultSeason, 1, "ann">>).picks
    /\ msg.op = "SubmitPicks"

\* the games of the complete weeks of a season, as (week, place in the list)
CompleteWeekGames(data, season_name) ==
    LET weeks == data.seasons[season_name].weeks
    IN  {x \in (DOMAIN weeks) \X (1..GamesPerWeek) : FullyDecided(weeks[x[1]]) /\ x[2] <= Len(weeks[x[1]].games)}

GameAt(data, season_name, x) == data.seasons[season_name].weeks[x[1]].games[x[2]]

TeamsOf(game) == {Normalized(game.away), Normalized(game.home)}

WinnerAt(data, season_name, x) ==
    Normalized(data.seasons[season_name].weeks[x[1]].winners[GameAt(data, season_name, x).id])

\* the (approved, active user, game of a complete week) pairs where the user picked the team
PickedPairs(data, season_name, team) ==
    {y \in ActiveUsers(data) \X CompleteWeekGames(data, season_name) :
        LET u == y[1]
            game == GameAt(data, season_name, y[2])
        IN  /\ team \in TeamsOf(game)
            /\ y[2][1] \in DOMAIN data.users[u].picks
            /\ game.id \in DOMAIN data.users[u].picks[y[2][1]].picks
            /\ data.users[u].picks[y[2][1]].picks[game.id] # None
            /\ Normalized(data.users[u].picks[y[2][1]].picks[game.id]) = team}

\* the four counters of a team as the rule gives them
ExpectedTeamStats(data, season_name, team) ==
    LET played == {x \in CompleteWeekGames(data, season_name) : team \in TeamsOf(GameAt(data, season_name, x))}
        picked == PickedPairs(data, season_name, team)
    IN  [games |-> Cardinality(played),
         wins |-> Cardinality({x \in played : WinnerAt(data, season_name, x) = team}),
         times_picked |-> Cardinality(picked),
         correct_picks |-> Cardinality({y \in picked : WinnerAt(data, season_name, y[2]) = team})]

\* C18 as claimed: build_team_stats has an entry for exactly the teams of the
\* games of complete weeks, with games, wins, times_picked and correct_picks
\* counted over those games and the picks of approved, active users on them;
\* wins <= games and correct_picks <= times_picked; a week with a game that
\* has no declared winner adds nothing.
C18_TeamStats ==
    \A season_name \in DOMAIN file.seasons :
        LET team_stats == build_team_stats(file, season_name)
            teams == UNION {TeamsOf(GameAt(file, season_name, x)) : x \in CompleteWeekGames(file, season_name)}
        IN  /\ DOMAIN team_stats = teams
            /\ \A team \in teams :
                   /\ team_stats[team] = ExpectedTeamStats(file, season_name, team)
                   /\ team_stats[team].wins <= team_stats[team].games
                   /\ team_stats[team].correct_picks <= team_stats[team].times_picked

\* C19: for every season, week and user with a stored submission the
\* confidence points of calculate_week_results are one of 0, 1, ..., 6, and
\* the weights of every stored submission add up to 6.
C19_ConfidenceRange ==
    /\ \A x \in Scored(file) : ResultOf(file, x)[2] \in 0..6
    /\ \A y \in Stored(file) :
           LET confidence == file.users[y[1]].picks[y[2]].confidence
           IN  WeightOn(confidence, ConfGames(confidence)) = 6

\* of the submissions for weeks with a declared winner, one earns all 6
\* points and one earns none; among the stored ones is dee's, saved by the admin
C19_Witness ==
    /\ \E x \in Scored(file) : WeekOf(file, x).winners # EmptyMap /\ ResultOf(file, x)[2] = 6
    /\ \E x \in Scored(file) : WeekOf(file, x).winners # EmptyMap /\ ResultOf(file, x)[2] = 0
    /\ <<"dee", 1>> \in Stored(file)

C21_OnlyTheViewedWeek ==
    [][(HandlerStep("SaveGames") \/ HandlerStep("SaveWinners")) =>
          \A s \in Sessions : pc[s] = "run" =>
              LET season == ViewingSeason(local[s].data, form.viewing_season)
              IN  /\ \A other \in DOMAIN file.seasons \ {season} :
                         file'.seasons[other] = file.seasons[other]
                  /\ \A week \in DOMAIN file.seasons[season].weeks \ {1} :
                         file'.seasons[season].weeks[week] = file.seasons[season].weeks[week]
                  /\ HandlerStep("SaveWinners") =>
                         \A u \in Submitters(file', 1) :
                             file'.users[u].picks[1].cached =
                                 ResultOf(file', <<season, 1, u>>)]_vars

\* C22 as claimed: a week whose winners_set is true has a declared winner
\* for every one of its games.
C22_FlagMeansDecided ==
    \A season_name \in DOMAIN file.seasons : \A week \in DOMAIN file.seasons[season_name].weeks :
        file.seasons[season_name].weeks[week].winners_set =>
            FullyDecided(file.seasons[season_name].weeks[week])

\* every declared winner of the week is one of the two teams of its game
WinnersAreTeams(week_data) ==
    \A i \in 1..Len(week_data.games) :
        LET game == week_data.games[i]
        IN  game.id \in DOMAIN week_data.winners =>
                week_data.winners[game.id] \in {game.away, game.home}

\* C23 as claimed: no step changes the games of a week that has a declared
\* winner, and every declared winner is one of the two teams of its game.
C23_ScoredGamesFixed ==
    /\ [](\A season_name \in DOMAIN file.seasons : \A week \in DOMAIN file.seasons[season_name].weeks :
             WinnersAreTeams(file.seasons[season_name].weeks[week]))
    /\ [][\A season_name \in DOMAIN file.seasons : \A week \in DOMAIN file.seasons[season_name].weeks :
             file.seasons[season_name].weeks[week].winners # EmptyMap =>
                 file'.seasons[season_name].weeks[week].games =
                     file.seasons[season_name].weeks[week].games]_vars

\* the games of a week as Save Games stores them: every row of the form
\* filled, with the ids 0, 1, ... in the order of the rows
FullSlate(games) ==
    /\ Len(games) = GamesPerWeek
    /\ \A i \in 1..Len(games) : games[i].id = i - 1 /\ games[i].away # "" /\ games[i].home # ""

GameIds(week_data) == {week_data.games[i].id : i \in 1..Len(week_data.games)}

\* C24: the keys of every week's winners are ids of its games; the games of
\* a week are none or a full slate; and a Save Games that is not given a full
\* slate writes nothing.
C24_WinnersOfGames ==
    /\ [](\A season_name \in DOMAIN file.seasons : \A week \in DOMAIN file.seasons[season_name].weeks :
             LET week_data == file.seasons[season_name].weeks[week]
             IN  /\ DOMAIN week_data.winners \subseteq GameIds(week_data)
                 /\ week_data.games = <<>> \/ FullSlate(week_data.games))
    /\ [][HandlerStep("SaveGames") => (msg'.text # "Saved games" => file' = file)]_vars

\* week 1 has winners, and the admin's last Save Games, a slate with a blank
\* row, was refused
C24_Witness ==
    /\ msg = [op |-> "SaveGames", text |-> "You must enter all games"]
    /\ file.seasons[DefaultSeason].weeks[1].winners # EmptyMap
    /\ FullSlate(file.seasons[DefaultSeason].weeks[1].games)

\* C25 as claimed: a step from a state where a season is locked to a state
\* where it is still locked leaves the season's weeks, with their games and
\* winners, and the season's standings as they were.
C25_LockedIsReadOnly ==
    [][\A season_name \in DOMAIN file.seasons :
          (file.seasons[season_name].locked /\ season_name \in DOMAIN file'.seasons
              /\ file'.seasons[season_name].locked) =>
              /\ file'.seasons[season_name].weeks = file.seasons[season_name].weeks
              /\ get_season_standings(file', season_name) = get_season_standings(file, season_name)]_vars

ActiveSeasons(data) == {season_name \in DOMAIN data.seasons : data.seasons[season_name].active}

\* C26: at most one season of the stored document is active, and an active
\* season is the one current_season names.
C26_OneActiveSeason ==
    /\ Cardinality(ActiveSeasons(file)) <= 1
    /\ ActiveSeasons(file) \subseteq {file.current_season}

\* three seasons exist and the last one created has been made the active one
C26_Witness ==
    /\ DOMAIN file.seasons = {DefaultSeason, NextSeason, "2027-2028"}
    /\ file.current_season = "2027-2028"
    /\ ActiveSeasons(file) = {"2027-2028"}

\* the messages of a handler that called save_data
SavedTexts == {"All winners saved", "Saved some winners", "Picks submitted and locked!"}

\* the submission of x as the participant entered it
Entered(data, x) ==
    [picks |-> data.users[x[1]].picks[x[2]].picks,
     confidence |-> data.users[x[1]].picks[x[2]].confidence,
     submitted |-> data.users[x[1]].picks[x[2]].submitted]

\* C27: the run of a session that ends with a save leaves in the file the copy
\* that run loaded with the handler's own change and nothing else, whatever the
\* file held at that moment: after a winners save the file has the submissions
\* of the writer's copy and no other, after a pick submission it has the weeks
\* of the writer's copy and the submissions of that copy plus the new one; a
\* run whose handler did not save leaves the file as it was.
C27_LastWriterWins ==
    [][\A s \in Sessions : (pc[s] = "run" /\ pc'[s] = "idle") =>
          LET copy == local[s].data
          IN  /\ msg'.text \notin SavedTexts => file' = file
              /\ (msg'.text \in SavedTexts /\ msg'.op = "SaveWinners") =>
                    /\ Stored(file') = Stored(copy)
                    /\ \A x \in Stored(copy) : Entered(file', x) = Entered(copy, x)
                    /\ file'.seasons[DefaultSeason].weeks[1].games = copy.seasons[DefaultSeason].weeks[1].games
                    /\ file'.seasons[DefaultSeason].weeks[1].winners # EmptyMap
              /\ (msg'.text \in SavedTexts /\ msg'.op = "SubmitPicks") =>
                    /\ file'.seasons = copy.seasons
                    /\ \E username \in DOMAIN copy.users :
                          /\ <<username, 1>> \notin Stored(copy)
                          /\ Stored(file') = Stored(copy) \cup {<<username, 1>>}
                          /\ \A other \in DOMAIN copy.users \ {username} :
                                file'.users[other] = copy.users[other]]_vars

\* a lost update: a run that began after ann's submission was written holds it
\* in its copy, and the file, last written by a winners save of the other
\* session, has winners and no submission of ann
C27_Witness ==
    /\ msg.op = "SaveWinners" /\ msg.text \in SavedTexts
    /\ file.seasons[DefaultSeason].weeks[1].winners # EmptyMap
    /\ <<"ann", 1>> \notin Stored(file)
    /\ \E s \in Sessions :
          /\ pc[s] = "run"
          /\ <<"ann", 1>> \in Stored(local[s].data)
          /\ local[s].data.seasons[DefaultSeason].weeks[1].winners = EmptyMap

\* C28 as claimed: a submission stored while one season is current leaves the
\* week results of every user and the standings of every other season as
\* they were.
C28_SubmissionOfItsSeason ==
    [][(HandlerStep("SubmitPicks") /\ msg'.text = "Picks submitted and locked!") =>
          \A season_name \in DOMAIN file.seasons \ {file.current_season} :
              /\ get_season_standings(file', season_name) = get_season_standings(file, season_name)
              /\ \A week_num \in DOMAIN file.seasons[season_name].weeks, username \in DOMAIN file.users :
                    ResultOf(file', <<season_name, week_num, username>>)
                        = ResultOf(file, <<season_name, week_num, username>>)]_vars

\* the submissions of the two documents are the same
SameSubmissions(before, after) ==
    /\ DOMAIN after.users = DOMAIN before.users
    /\ Stored(after) = Stored(before)
    /\ \A x \in Stored(before) : Entered(after, x) = Entered(before, x)

\* a season of the second document has the weeks and games it has in the
\* first, and every winner declared in the first
WinnersDeclared(before, after, season_name) ==
    /\ DOMAIN after.seasons[season_name].weeks = DOMAIN before.seasons[season_name].weeks
    /\ \A w \in DOMAIN before.seasons[season_name].weeks :
          LET old == before.seasons[season_name].weeks[w]
              new == after.seasons[season_name].weeks[w]
          IN  /\ new.games = old.games
              /\ DOMAIN old.winners \subseteq DOMAIN new.winners
              /\ \A id \in DOMAIN old.winners : new.winners[id] = old.winners[id]

\* C29 as claimed: a step that leaves the submissions as they were and only
\* declares winners for further games of a season leaves no user of the
\* season's standings with fewer losses than before, and no user has a
\* negative number of losses.
C29_LossesNeverDecrease ==
    [][\A season_name \in DOMAIN file.seasons \cap DOMAIN file'.seasons :
          (SameSubmissions(file, file') /\ WinnersDeclared(file, file', season_name)) =>
              \A u \in Eligible(file, season_name) \cap Eligible(file', season_name) :
                  /\ RowOf(get_season_standings(file', season_name), u).Losses
                        >= RowOf(get_season_standings(file, season_name), u).Losses
                  /\ RowOf(get_season_standings(file', season_name), u).Losses >= 0]_vars

\* the (approved, active user, week) pairs of a season where the week's
\* winners_set is true and the user has a submission
FlaggedSubmissions(data, season_name) ==
    {y \in ActiveUsers(data) \X (1..LastWeek) :
        /\ y[2] \in DOMAIN data.seasons[season_name].weeks
        /\ data.seasons[season_name].weeks[y[2]].winners_set
        /\ y[2] \in DOMAIN data.users[y[1]].picks}

\* the picks of those submissions on games of the week that have a declared winner
DecidedPicks(data, season_name) ==
    {z \in FlaggedSubmissions(data, season_name) \X Ids :
        LET week_data == data.seasons[season_name].weeks[z[1][2]]
            picks == data.users[z[1][1]].picks[z[1][2]].picks
        IN  /\ \E i \in 1..Len(week_data.games) : week_data.games[i].id = z[2]
            /\ z[2] \in DOMAIN week_data.winners
            /\ z[2] \in DOMAIN picks
            /\ picks[z[2]] # None}

\* C30 as claimed: in every season the correct_picks of build_team_stats add
\* up to the correct counts calculate_week_results gives the approved, active
\* users for the weeks whose winners_set is true, and the times_picked add up
\* to the number of picks of those users on the decided games of those weeks.
C30_AnalyzerAgreesWithResolver ==
    \A season_name \in DOMAIN file.seasons :
        LET team_stats == build_team_stats(file, season_name)
            flagged == FlaggedSubmissions(file, season_name)
        IN  /\ SumOver(DOMAIN team_stats, [team \in DOMAIN team_stats |-> team_stats[team].correct_picks])
                  = SumOver(flagged, [y \in flagged |->
                        calculate_week_results(file.seasons[season_name], y[2], y[1], file.users[y[1]])[1]])
            /\ SumOver(DOMAIN team_stats, [team \in DOMAIN team_stats |-> team_stats[team].times_picked])
                  = Cardinality(DecidedPicks(file, season_name))

====
